---- MODULE Spec2Model ----
(***************************************************************************)
(* Model of the core-update service (CoreUpdateService) and the speed-test *)
(* service (SpeedTestService) of flowz.                                    *)
(*                                                                         *)
(* Spec      : updateCore calls racing on one service instance and one     *)
(*             file system (install path, <path>.bak, temp artifacts).     *)
(* SpecCmp   : compareVersions applied to bounded version strings.         *)
(* SpecCheck : one checkUpdate call against a bounded release feed.        *)
(* SpecSpeed : one testAllServers call over a bounded server list.         *)
(* SpecDownload : one download, through redirects, and its unpacking.      *)
(* SpecHttp  : the promise of one httpGetViaSocks call.                    *)
(* SpecConfig : generateTempConfig applied to bounded server profiles.     *)
(* SpecIpc   : one invocation of the SERVER_SPEED_TEST handler.            *)
(* SpecTopology : hovering over the nodes and links of the topology.       *)
(* FairSpeed : SpecSpeed with an event loop that runs what is due.         *)
(***************************************************************************)
EXTENDS Integers, Sequences, FiniteSets, TLC

VARIABLES
    \* ---- CoreUpdateService.updateCore ----
    platform,     \* process.platform
    proxyManager, \* TRUE when setProxyManager was called (proxyManager # null)
    running,      \* proxyManager.getStatus().running
    isUpdating,   \* CoreUpdateService.isUpdating
    install,      \* content of resourceManager.getSingBoxPath(), or Absent
    installMode,  \* permission bits of the install path: "x" after chmod 0o755
    bak,          \* content of <path>.bak, or Absent
    temps,        \* temp artifacts that exist: <<kind, call>>
    call,         \* per updateCore call: position and locals
    \* ---- compareVersions applied to three version strings ----
    va, vb, vc,   \* the version strings
    cmpDone,      \* the comparisons below have been made
    cmp,          \* [ab, ba, bc, ac, aa]: compareVersions of each pair
    \* ---- CoreUpdateService.checkUpdate ----
    arch,         \* process.arch
    chkPc,        \* position of the checkUpdate call
    current,      \* its local currentVersion
    fetched,      \* what fetchReleases resolved with (JSON.parse(data))
    chkFailure,   \* the step of checkUpdate that threw, "none" if none did
    result,       \* what checkUpdate returned
    \* ---- SpeedTestService.testAllServers ----
    servers,      \* the argument: the ids of the servers, in order
    spdPc,        \* position of the testAllServers call
    batchAt,      \* the loop variable i
    probe,        \* per server position: the state of its testServer call
    results,      \* the Map being filled: a set of <<serverId, latency>>
    returned,     \* the Map returned
    \* ---- CoreUpdateService.downloadFile and the unpacking ----
    dlPc,         \* position: the call, its request, the unpacking
    dlAsset,      \* pathname of the URL updateCore was given
    dlUrl,        \* pathname of the URL of the current downloadFile call
    dlFiles,      \* the temp files created and not unlinked, oldest first
    dlPath,       \* the path downloadFile resolved with
    dlMethod,     \* the command extractCore ran on it
    dlEnd,        \* how it ended
    \* ---- SpeedTestService.httpGetViaSocks, one call ----
    hSocket,      \* the tunnel socket: open, destroyed, closed ('close' emitted)
    hTimer,       \* the setTimeout of line 806: armed, cleared, fired
    hReceived,    \* responseReceived
    hSettled,     \* the promise: pending, resolved, or how it was rejected
    hChunks,      \* the chunks the 'data' handler was given
    hCalls,       \* calls of resolve and reject made so far
    \* ---- SpeedTestService.generateTempConfig, one call ----
    cfgPc,        \* position: before the call, after it
    cfgServer,    \* the server profile passed in
    cfgPort,      \* the port passed in
    cfgOut,       \* the configuration returned
    \* ---- the SERVER_SPEED_TEST handler, one invocation ----
    ipcPc,        \* position of the handler
    ipcServers,   \* config.servers, by id
    ipcSocket,    \* per server: the socket of its map callback
    ipcResults,   \* the results object: a set of <<serverId, milliseconds>>
    \* ---- ConnectionTopology ----
    topoLinks,    \* links: the links of the diagram, in order
    hovered,      \* the hovered node or link
    highlighted   \* highlightedIds: the ids drawn highlighted

updVars == <<platform, proxyManager, running, isUpdating, install, installMode,
             bak, temps, call>>
cmpVars == <<va, vb, vc, cmpDone, cmp>>
chkVars == <<arch, chkPc, current, fetched, chkFailure, result>>
spdVars == <<servers, spdPc, batchAt, probe, results, returned>>
dlVars == <<dlPc, dlAsset, dlUrl, dlFiles, dlPath, dlMethod, dlEnd>>
hVars == <<hSocket, hTimer, hReceived, hSettled, hChunks, hCalls>>
cfgVars == <<cfgPc, cfgServer, cfgPort, cfgOut>>
ipcVars == <<ipcPc, ipcServers, ipcSocket, ipcResults>>
topoVars == <<topoLinks, hovered, highlighted>>

vars == <<updVars, cmpVars, chkVars, spdVars, dlVars, hVars, cfgVars,
         ipcVars, topoVars>>
otherThanUpd ==
    <<cmpVars, chkVars, spdVars, dlVars, hVars, cfgVars, ipcVars,
      topoVars>>
otherThanCmp ==
    <<updVars, chkVars, spdVars, dlVars, hVars, cfgVars, ipcVars,
      topoVars>>
otherThanChk ==
    <<updVars, cmpVars, spdVars, dlVars, hVars, cfgVars, ipcVars,
      topoVars>>
otherThanSpd ==
    <<updVars, cmpVars, chkVars, dlVars, hVars, cfgVars, ipcVars,
      topoVars>>
otherThanDl ==
    <<updVars, cmpVars, chkVars, spdVars, hVars, cfgVars, ipcVars,
      topoVars>>
otherThanHttp ==
    <<updVars, cmpVars, chkVars, spdVars, dlVars, cfgVars, ipcVars,
      topoVars>>
otherThanCfg ==
    <<updVars, cmpVars, chkVars, spdVars, dlVars, hVars, ipcVars,
      topoVars>>
otherThanIpc ==
    <<updVars, cmpVars, chkVars, spdVars, dlVars, hVars, cfgVars,
      topoVars>>
otherThanTopo ==
    <<updVars, cmpVars, chkVars, spdVars, dlVars, hVars, cfgVars,
      ipcVars>>

----------------------------------------------------------------------------
(* Bounds *)
MaxCalls == 2          \* updateCore calls issued in one behaviour
MaxComponents == 2     \* components of a version string given to SpecCmp
MaxFeed == 2           \* releases in the feed given to SpecCheck
MaxServers == 6        \* servers given to testAllServers
MaxRedirects == 2      \* redirects one download is served through
MaxChunks == 3         \* chunks of data one tunnel socket delivers
MaxMiddles == 2        \* middle nodes of the topology
MaxOutbounds == 3      \* outbound nodes of the topology

----------------------------------------------------------------------------
(* File contents *)
Absent  == "absent"    \* the path does not exist
Partial == "partial"   \* a file left behind by a copy that failed midway
Urls    == {"u1", "u2"}
\* the executable inside the archive behind a download url
NewBin(u) == IF u = "u1" THEN "N1" ELSE "N2"
Platforms == {"win32", "darwin", "linux"}
Calls == 1..MaxCalls

\* fs.copyFileSync(src, dest) that throws: the destination is untouched when
\* the error comes before it is opened for writing; afterwards Node tries to
\* remove it, and a failed removal leaves a truncated file.
FailedCopyDest(dest) == {dest, Absent, Partial}

\* retries default of copyFileWithRetry
Retries == 3

NoCall == [pc |-> "idle", outcome |-> "none", url |-> "none", core |-> Absent,
           i |-> 0, wasRunning |-> FALSE, failedIn |-> "none",
           restore |-> "none", raised |-> "none", forced |-> "none",
           startRunning |-> FALSE, startInstall |-> Absent,
           endInstall |-> Absent]

InProgress == {"download", "extract", "stop", "settle", "backup", "copy",
               "chmod", "cleanup", "catch"}

UpdInit ==
    /\ platform \in Platforms
    /\ proxyManager \in BOOLEAN
    /\ running \in (IF proxyManager THEN BOOLEAN ELSE {FALSE})
    /\ isUpdating = FALSE
    /\ install \in {Absent, "B0"}
    /\ installMode = (IF install = Absent THEN "-" ELSE "x")
    /\ bak \in {Absent, "Bprev"}
    /\ temps = {}
    /\ call = [c \in Calls |-> NoCall]

\* the update service at rest, for the specifications that do not exercise it
UpdIdle ==
    /\ platform = "linux"
    /\ proxyManager = FALSE
    /\ running = FALSE
    /\ isUpdating = FALSE
    /\ install = "B0"
    /\ installMode = "x"
    /\ bak = Absent
    /\ temps = {}
    /\ call = [c \in Calls |-> NoCall]


----------------------------------------------------------------------------
(* Strings are sequences of characters; compareVersions, lines 286-296 *)

Digits == {"0", "1", "2", "3", "4", "5", "6", "7", "8", "9"}
DigitVal(ch) ==
    CASE ch = "0" -> 0 [] ch = "1" -> 1 [] ch = "2" -> 2 [] ch = "3" -> 3
      [] ch = "4" -> 4 [] ch = "5" -> 5 [] ch = "6" -> 6 [] ch = "7" -> 7
      [] ch = "8" -> 8 [] ch = "9" -> 9

Max(a, b) == IF a >= b THEN a ELSE b
Min(a, b) == IF a <= b THEN a ELSE b

\* String.prototype.split('.')
RECURSIVE SplitDot(_)
SplitDot(s) ==
    IF \A k \in 1..Len(s) : s[k] # "."
    THEN <<s>>
    ELSE LET k == CHOOSE k \in 1..Len(s) :
                     s[k] = "." /\ \A j \in 1..(k-1) : s[j] # "."
         IN <<SubSeq(s, 1, k - 1)>> \o SplitDot(SubSeq(s, k + 1, Len(s)))

RECURSIVE Decimal(_)
Decimal(t) ==
    IF t = <<>> THEN 0
    ELSE 10 * Decimal(SubSeq(t, 1, Len(t) - 1)) + DigitVal(t[Len(t)])

\* Number(string): 0 for the empty string, the decimal value of a digit
\* string, NaN for anything else over the characters used here
Number(t) ==
    IF \A k \in 1..Len(t) : t[k] \in Digits
    THEN [nan |-> FALSE, val |-> Decimal(t)]
    ELSE [nan |-> TRUE, val |-> 0]

Parts(v) == LET sp == SplitDot(v) IN [k \in 1..Len(sp) |-> Number(sp[k])]

\* p[i] || 0 : undefined (past the end), NaN and 0 all give 0
\* (faulty variant: a missing component counts as 1)
OrOne(p, i) == IF i > Len(p) THEN 1 ELSE IF p[i].nan THEN 0 ELSE p[i].val
OrZero(p, i) == IF i > Len(p) \/ p[i].nan THEN 0 ELSE p[i].val

\* line 289: the loop runs to the longer of the two
\* (faulty variant: to the shorter)
LoopBoundMin(p1, p2) == Min(Len(p1), Len(p2))
LoopBound(p1, p2) == Max(Len(p1), Len(p2))

RECURSIVE CompareFrom(_, _, _)
CompareFrom(p1, p2, i) ==
    IF i > LoopBound(p1, p2) THEN 0
    ELSE LET n1 == OrZero(p1, i)
             n2 == OrZero(p2, i)
         IN IF n1 > n2 THEN 1
            ELSE IF n1 < n2 THEN -1
            ELSE CompareFrom(p1, p2, i + 1)

compareVersions(v1, v2) == CompareFrom(Parts(v1), Parts(v2), 1)

(* SpecCmp: three dotted-numeric strings are chosen, then compared *)

\* the numerals a component is drawn from: 0, 9 and 10
Numerals == {<<"0">>, <<"9">>, <<"1", "0">>}

RECURSIVE Dotted(_)
\* the dotted strings of exactly n components
Dotted(n) ==
    IF n = 1 THEN Numerals
    ELSE {d \o <<".">> \o m : d \in Dotted(n - 1), m \in Numerals}

VersionStrings == UNION {Dotted(n) : n \in 1..MaxComponents}

NoCmp == [ab |-> 0, ba |-> 0, bc |-> 0, ac |-> 0, aa |-> 0]

CmpIdle ==
    /\ va = <<>> /\ vb = <<>> /\ vc = <<>>
    /\ cmpDone = FALSE
    /\ cmp = NoCmp

CmpInit ==
    /\ va \in VersionStrings
    /\ vb \in VersionStrings
    /\ vc \in VersionStrings
    /\ cmpDone = FALSE
    /\ cmp = NoCmp

Compare ==
    /\ ~cmpDone
    /\ cmpDone' = TRUE
    /\ cmp' = [ab |-> compareVersions(va, vb), ba |-> compareVersions(vb, va),
               bc |-> compareVersions(vb, vc), ac |-> compareVersions(va, vc),
               aa |-> compareVersions(va, va)]
    /\ UNCHANGED <<va, vb, vc>>
    /\ UNCHANGED otherThanCmp

----------------------------------------------------------------------------
(* checkUpdate, lines 64-114, with fetchReleases, findSuitableAsset and    *)
(* getCurrentVersion                                                       *)

\* the current version when no proxy manager is attached: the two
\* characters of the placeholder, neither a digit nor a dot (line 248)
\* (faulty variant: a placeholder that reads as a number)
UnknownNumeric == <<"9", "9">>
Unknown == <<"?", "?">>

\* what proxyManager.getCoreVersion() can resolve with
CoreVersions == { <<"1", ".", "7", ".", "0">>, <<"1", ".", "8">>,
                  <<"1", ".", "9", ".", "0">> }

\* asset names, as the sequence of their parts
LowerPart(t) == IF t = "Windows" THEN "windows" ELSE t
\* String.prototype.toLowerCase
ToLowerCase(name) == [k \in 1..Len(name) |-> LowerPart(name[k])]
\* String.prototype.includes, for a keyword that is one part or empty
Includes(name, kw) == kw = "" \/ \E k \in 1..Len(name) : name[k] = kw
\* String.prototype.endsWith, for an extension that is one part or empty
EndsWith(name, ext) == ext = "" \/ (Len(name) > 0 /\ name[Len(name)] = ext)

Asset(parts, url) == [name |-> parts, browser_download_url |-> url]
LinuxAmd64  == Asset(<<"sing-box", "linux", "amd64", ".tar.gz">>, "url-linux-amd64")
LinuxDeb    == Asset(<<"sing-box", "linux", "amd64", ".deb">>, "url-linux-deb")
LinuxArm64  == Asset(<<"sing-box", "linux", "arm64", ".tar.gz">>, "url-linux-arm64")
WinAmd64    == Asset(<<"sing-box", "Windows", "amd64", ".zip">>, "url-windows-amd64")
DarwinArm64 == Asset(<<"sing-box", "darwin", "arm64", ".tar.gz">>, "url-darwin-arm64")
DarwinAmd64Zip == Asset(<<"sing-box", "darwin", "amd64", ".zip">>, "url-darwin-amd64")
FullAssets  == <<LinuxDeb, LinuxArm64, LinuxAmd64, WinAmd64, DarwinArm64,
                 DarwinAmd64Zip>>

Release(tag, pre, assets, body) ==
    [hasTag |-> TRUE, tag_name |-> tag, prerelease |-> pre, assets |-> assets,
     body |-> body]

\* the releases a feed is made of
ReleasePool ==
    { Release(<<"v", "1", ".", "8", ".", "0">>, FALSE, FullAssets, "notes 1.8.0"),
      Release(<<"v", "1", ".", "8", ".", "0">>, FALSE, <<LinuxDeb>>, "notes 1.8.0 deb"),
      Release(<<"v", "1", ".", "1", "0", ".", "0">>, FALSE, FullAssets, "notes 1.10.0"),
      Release(<<"v", "1", ".", "9", ".", "1", "-", "b">>, TRUE, FullAssets, "notes 1.9.1-b"),
      Release(<<"1", ".", "7", ".", "0">>, FALSE, FullAssets, "notes 1.7.0"),
      Release(<<"v", "1", ".", "7", ".", "0">>, TRUE, <<>>, "notes 1.7.0 pre"),
      \* an entry without tag_name
      [hasTag |-> FALSE, tag_name |-> <<>>, prerelease |-> FALSE,
       assets |-> <<>>, body |-> ""] }

Feeds == UNION {[1..n -> ReleasePool] : n \in 0..MaxFeed}

\* what the feed request can end with: a request error, a status other than
\* 200, a body that is not JSON, or a JSON value (null, an object, an array)
Responses ==
    {[kind |-> k, items |-> <<>>] : k \in {"neterror", "status", "parse",
                                          "null", "object"}}
    \cup {[kind |-> "array", items |-> f] : f \in Feeds}

ChkPlatforms == Platforms \cup {"freebsd"}
Archs == {"x64", "arm64", "ia32"}

NoFields == {}
NoResult ==
    [returned |-> FALSE, threw |-> FALSE, hasUpdate |-> FALSE,
     currentVersion |-> <<>>, latestVersion |-> <<>>, downloadUrl |-> "",
     releaseNotes |-> "", error |-> "", fields |-> NoFields]

\* { hasUpdate: false, currentVersion, error } and { hasUpdate: false,
\* currentVersion } (error = "" with no error field)
NoUpdate(cur, err) ==
    [NoResult EXCEPT !.returned = TRUE, !.currentVersion = cur,
                     !.error = err,
                     !.fields = IF err = "" THEN NoFields ELSE {"error"}]

\* lines 109-113: the catch block returns the failure
\* (faulty variant: it rethrows)
CaughtRethrow(msg) == [NoResult EXCEPT !.threw = TRUE, !.error = msg]
Caught(msg) == NoUpdate(Unknown, msg)

\* line 76: the filter keeps the entries that are no prerelease
\* (faulty variant: it keeps every entry)
StableAny(r) == TRUE
Stable(r) == ~r.prerelease

\* line 83: tag_name.replace(/^v/, '')
StripV(tag) == IF Len(tag) > 0 /\ tag[1] = "v" THEN Tail(tag) ELSE tag

\* line 88: strictly newer
\* (faulty variant: newer or equal)
NewerOrEqual(latest, cur) == compareVersions(latest, cur) >= 0
Newer(latest, cur) == compareVersions(latest, cur) > 0

\* findSuitableAsset, lines 298-333
Keyword(p) == CASE p = "win32" -> "windows" [] p = "darwin" -> "darwin"
                [] p = "linux" -> "linux" [] OTHER -> ""
Ext(p) == CASE p = "win32" -> ".zip" [] p = "darwin" -> ".tar.gz"
            [] p = "linux" -> ".tar.gz" [] OTHER -> ""
ArchKeyword(a) == CASE a = "x64" -> "amd64" [] a = "arm64" -> "arm64"
                    [] OTHER -> ""
\* (faulty variant: the architecture is not looked at)
AssetMatchesAnyArch(a, p, ar) ==
    /\ Includes(ToLowerCase(a.name), Keyword(p))
    /\ (EndsWith(a.name, Ext(p)) \/ EndsWith(a.name, ".zip"))
AssetMatches(a, p, ar) ==
    /\ Includes(ToLowerCase(a.name), Keyword(p))
    /\ Includes(ToLowerCase(a.name), ArchKeyword(ar))
    /\ (EndsWith(a.name, Ext(p)) \/ EndsWith(a.name, ".zip"))
\* the index of the asset Array.prototype.find returns, 0 for undefined
findSuitableAsset(assets, p, ar) ==
    LET hits == {k \in 1..Len(assets) : AssetMatches(assets[k], p, ar)}
    IN IF hits = {} THEN 0 ELSE CHOOSE k \in hits : \A j \in hits : k <= j

\* line 103: the message of the result when no asset matches
NoBuildMessage(p, ar) ==
    "no build for this platform (Platform: " \o p \o ", Arch: " \o ar \o ")"

\* lines 71-108, given the parsed feed: the value returned, or the message of
\* the TypeError thrown on the way
Evaluated(cur, json, p, ar) ==
    IF json.kind = "null" \/ (json.kind = "array" /\ Len(json.items) = 0)
    THEN [thrown |-> FALSE, value |-> NoUpdate(cur, "no release found")]
    ELSE IF json.kind = "object"
    THEN [thrown |-> TRUE, value |-> Caught("releases.filter is not a function")]
    ELSE
    LET validReleases == SelectSeq(json.items, Stable) IN
    IF Len(validReleases) = 0
    THEN [thrown |-> FALSE, value |-> NoUpdate(cur, "no stable release found")]
    ELSE
    LET latestRelease == validReleases[1] IN
    IF ~latestRelease.hasTag
    THEN [thrown |-> TRUE,
          value |-> Caught("cannot read properties of undefined")]
    ELSE
    LET latestVersion == StripV(latestRelease.tag_name) IN
    IF Newer(latestVersion, cur)
    THEN LET k == findSuitableAsset(latestRelease.assets, p, ar) IN
         IF k # 0
         THEN [thrown |-> FALSE,
               value |-> [NoResult EXCEPT
                   !.returned = TRUE, !.hasUpdate = TRUE,
                   !.currentVersion = cur,
                   !.latestVersion = latestVersion,
                   !.downloadUrl = latestRelease.assets[k].browser_download_url,
                   !.releaseNotes = latestRelease.body,
                   !.fields = {"latestVersion", "downloadUrl", "releaseNotes"}]]
         ELSE [thrown |-> FALSE,
               value |-> NoUpdate(cur, NoBuildMessage(p, ar))]
    ELSE [thrown |-> FALSE, value |-> NoUpdate(cur, "")]

ChkIdle ==
    /\ arch = "x64"
    /\ chkPc = "idle"
    /\ current = <<>>
    /\ fetched = [kind |-> "none", items |-> <<>>]
    /\ chkFailure = "none"
    /\ result = NoResult

ChkInit ==
    /\ arch \in Archs
    /\ chkPc = "version"
    /\ current = <<>>
    /\ fetched = [kind |-> "none", items |-> <<>>]
    /\ chkFailure = "none"
    /\ result = NoResult

\* line 68 and getCurrentVersion (lines 244-249)
GetCurrentVersion ==
    /\ chkPc = "version"
    /\ IF proxyManager
       THEN \/ \E v \in CoreVersions :
                 /\ current' = v
                 /\ chkPc' = "fetch"
                 /\ UNCHANGED <<chkFailure, result>>
            \/ /\ chkPc' = "done"
               /\ chkFailure' = "version"
               /\ result' = Caught("getCoreVersion failed")
               /\ UNCHANGED current
       ELSE /\ current' = Unknown
            /\ chkPc' = "fetch"
            /\ UNCHANGED <<chkFailure, result>>
    /\ UNCHANGED <<arch, fetched>>
    /\ UNCHANGED otherThanChk

\* line 69 and fetchReleases (lines 253-284)
FetchReleases ==
    /\ chkPc = "fetch"
    /\ \E r \in Responses :
          /\ fetched' = r
          /\ CASE r.kind = "neterror" ->
                    /\ chkPc' = "done"
                    /\ chkFailure' = "network"
                    /\ result' = Caught("connect ECONNREFUSED")
               [] r.kind = "status" ->
                    /\ chkPc' = "done"
                    /\ chkFailure' = "status"
                    /\ result' = Caught("GitHub API Error: 403")
               [] r.kind = "parse" ->
                    /\ chkPc' = "done"
                    /\ chkFailure' = "parse"
                    /\ result' = Caught("Failed to parse GitHub response")
               [] OTHER ->
                    /\ chkPc' = "evaluate"
                    /\ UNCHANGED <<chkFailure, result>>
    /\ UNCHANGED <<arch, current>>
    /\ UNCHANGED otherThanChk

\* lines 71-108
Evaluate ==
    /\ chkPc = "evaluate"
    /\ LET e == Evaluated(current, fetched, platform, arch) IN
          /\ result' = e.value
          /\ chkFailure' = IF e.thrown THEN "evaluate" ELSE "none"
    /\ chkPc' = "done"
    /\ UNCHANGED <<arch, current, fetched>>
    /\ UNCHANGED otherThanChk

----------------------------------------------------------------------------
(* SpeedTestService: testAllServers (lines 502-528), testServer (533-571)  *)
(* and the stages it awaits: startTempSingbox, waitForPort,                *)
(* httpGetViaSocks                                                         *)

MAX_CONCURRENT == 5
\* latency: null
Null == -1
\* milliseconds the SOCKS5 handshake of SocksClient.createConnection takes,
\* and milliseconds from the request being written to the first chunk that
\* starts with "HTTP/"
HandshakeMs == {5}
ResponseMs == {7}
\* the values Date.now() - startTime takes here (lines 548-550)
Latencies == {h + r : h \in HandshakeMs, r \in ResponseMs}

\* server lists: n servers with ids 1..n, or the last one repeating the id
\* of the first
ServerLists ==
    {[k \in 1..n |-> k] : n \in 0..MaxServers}
    \cup {[k \in 1..n |-> IF k = n THEN 1 ELSE k] : n \in 2..MaxServers}

\* one testServer call: the stage it is in, the child process, whether its
\* `process` variable holds the child, the milliseconds since startTime was
\* taken, and the result it returns
NoProbe == [st |-> "idle", proc |-> "none", handle |-> FALSE, elapsed |-> 0,
            latency |-> Null, error |-> ""]

SpdIdle ==
    /\ servers = <<>>
    /\ spdPc = "idle"
    /\ batchAt = 0
    /\ probe = <<>>
    /\ results = {}
    /\ returned = {}

SpdInit ==
    /\ servers \in ServerLists
    /\ spdPc = "call"
    /\ batchAt = 0
    /\ probe = [k \in 1..Len(servers) |-> NoProbe]
    /\ results = {}
    /\ returned = {}

\* line 513: servers.slice(i, i + MAX_CONCURRENT), as positions from 1
\* (faulty variant: the slice is one short)
SliceEndShort(i) == Min(i + MAX_CONCURRENT - 1, Len(servers))
SliceEnd(i) == Min(i + MAX_CONCURRENT, Len(servers))
Batch(i) == (i + 1)..SliceEnd(i)

\* lines 534-542 for each server of the batch: the port, the configuration
\* and the spawn are made before testServer first waits; `spawned` are the
\* servers whose spawn produced a process
Started(i, spawned) ==
    [k \in 1..Len(servers) |->
        IF k \in Batch(i)
        THEN [NoProbe EXCEPT !.st = "starting",
                             !.proc = IF k \in spawned THEN "alive" ELSE "none"]
        ELSE probe[k]]

\* Map.prototype.set
MapSet(m, id, v) == {e \in m : e[1] # id} \cup {<<id, v>>}

\* lines 518-523: batchResults.forEach, in the order of the batch
RECURSIVE SetAll(_, _, _)
SetAll(m, from, to) ==
    IF from > to THEN m
    ELSE SetAll(MapSet(m, servers[from], probe[from].latency), from + 1, to)

\* lines 502-516: the call, up to the first batch's Promise.all
TestAllServers ==
    /\ spdPc = "call"
    /\ IF Len(servers) = 0
       THEN /\ spdPc' = "done"
            /\ returned' = {}
            /\ UNCHANGED <<batchAt, probe, results>>
       ELSE /\ spdPc' = "batch"
            /\ batchAt' = 0
            /\ results' = {}
            /\ \E spawned \in SUBSET Batch(0) : probe' = Started(0, spawned)
            /\ UNCHANGED returned
    /\ UNCHANGED servers
    /\ UNCHANGED otherThanSpd

\* lines 689-697: the process reports that it started; testServer goes on to
\* waitForPort with the process in hand
Ready(k) ==
    /\ spdPc = "batch" /\ k \in Batch(batchAt)
    /\ probe[k].st = "starting" /\ probe[k].proc = "alive"
    /\ probe' = [probe EXCEPT ![k].st = "port", ![k].handle = TRUE]
    /\ UNCHANGED <<servers, spdPc, batchAt, results, returned>>
    /\ UNCHANGED otherThanSpd

\* line 559: error instanceof Error ? error.message : String(error). Every
\* rejection carries an Error built with a message (lines 701, 707, 713,
\* 721, 742, 809, 836) or one raised by the socks client or the socket
ErrorMessage == "error.message"

\* lines 565-570: finally { if (process && !process.killed) process.kill() }
Killed(p) == IF p.handle THEN "dead" ELSE p.proc

\* lines 558-570: the catch block turns the error into a result (startTime
\* is out of scope), then the finally block runs (faulty variant: the
\* message is dropped)
CaughtNoMessage(p, msg) ==
    [p EXCEPT !.st = "done", !.elapsed = 0, !.latency = Null,
              !.proc = Killed(p)]
CaughtProbe(p, msg) ==
    [p EXCEPT !.st = "done", !.elapsed = 0, !.latency = Null, !.error = msg,
              !.proc = Killed(p)]

\* lines 699-723: what the rejecting handler of startTempSingbox leaves of
\* the child: the stderr handler leaves it running, a spawn error means
\* there is none, after a non-zero exit it is gone, the 2 s timer kills it
\* (faulty variant: the timer rejects without killing)
AfterRejectNoKill(kind, proc) ==
    CASE kind = "stderr" -> proc
      [] kind = "error"  -> "none"
      [] kind = "exit"   -> "dead"
      [] kind = "timeout" -> proc
AfterReject(kind, proc) ==
    CASE kind = "stderr" -> proc
      [] kind = "error"  -> "none"
      [] kind = "exit"   -> "dead"
      [] kind = "timeout" -> "dead"

\* lines 699-723 and 558-570: startTempSingbox rejects before the process
\* started: output on stderr, a spawn error, a non-zero exit, or the 2 s
\* timeout. testServer's `process` is still null, so its finally block
\* kills nothing.
StartFailBy(k, kind) ==
    /\ spdPc = "batch" /\ k \in Batch(batchAt)
    /\ probe[k].st = "starting"
    /\ kind = "error" <=> probe[k].proc = "none"
    /\ probe' = [probe EXCEPT ![k] =
           CaughtProbe([probe[k] EXCEPT
                           !.proc = AfterReject(kind, probe[k].proc)],
                       ErrorMessage)]
    /\ UNCHANGED <<servers, spdPc, batchAt, results, returned>>
    /\ UNCHANGED otherThanSpd

StartFail(k) == \E kind \in {"stderr", "error", "exit", "timeout"} :
                    StartFailBy(k, kind)

\* lines 711-723: a child that startTempSingbox left running after rejecting
\* on stderr output exits, or the 2 s timer, which still finds
\* started = false, kills it
StartTimer(k) ==
    /\ probe[k].st \in {"done", "returned"}
    /\ probe[k].proc = "alive"
    /\ probe' = [probe EXCEPT ![k].proc = "dead"]
    /\ UNCHANGED <<servers, spdPc, batchAt, results, returned>>
    /\ UNCHANGED otherThanSpd

\* waitForPort (lines 730-743) connects; line 548 takes startTime (faulty
\* variant: the port is polled without awaiting startTempSingbox)
PortOkEarly(k) ==
    /\ spdPc = "batch" /\ k \in Batch(batchAt)
    /\ probe[k].st \in {"starting", "port"}
    /\ probe' = [probe EXCEPT ![k].st = "tunnel", ![k].elapsed = 0]
    /\ UNCHANGED <<servers, spdPc, batchAt, results, returned>>
    /\ UNCHANGED otherThanSpd
PortOk(k) ==
    /\ spdPc = "batch" /\ k \in Batch(batchAt)
    /\ probe[k].st = "port"
    /\ probe' = [probe EXCEPT ![k].st = "tunnel", ![k].elapsed = 0]
    /\ UNCHANGED <<servers, spdPc, batchAt, results, returned>>
    /\ UNCHANGED otherThanSpd

\* waitForPort gives up after 3 s (faulty variant: it polls without a
\* deadline)
PortPolledForever(k) ==
    /\ spdPc = "batch" /\ k \in Batch(batchAt)
    /\ probe[k].st = "port"
    /\ FALSE
    /\ UNCHANGED vars
PortTimeout(k) ==
    /\ spdPc = "batch" /\ k \in Batch(batchAt)
    /\ probe[k].st = "port"
    /\ probe' = [probe EXCEPT ![k] = CaughtProbe(probe[k], ErrorMessage)]
    /\ UNCHANGED <<servers, spdPc, batchAt, results, returned>>
    /\ UNCHANGED otherThanSpd

\* lines 786-800 inside httpGetViaSocks: SocksClient.createConnection
\* resolves, the tunnel is open and the request is written
TunnelOk(k) ==
    /\ spdPc = "batch" /\ k \in Batch(batchAt)
    /\ probe[k].st = "tunnel"
    /\ \E h \in HandshakeMs :
          probe' = [probe EXCEPT ![k].st = "http",
                                 ![k].elapsed = probe[k].elapsed + h]
    /\ UNCHANGED <<servers, spdPc, batchAt, results, returned>>
    /\ UNCHANGED otherThanSpd

\* lines 817-826 and 550-557: a chunk starting with "HTTP/" arrives;
\* latency = Date.now() - startTime
ProbeOk(k) ==
    /\ spdPc = "batch" /\ k \in Batch(batchAt)
    /\ probe[k].st = "http"
    /\ \E r \in ResponseMs :
          probe' = [probe EXCEPT ![k].st = "done",
                                 ![k].elapsed = probe[k].elapsed + r,
                                 ![k].latency = probe[k].elapsed + r,
                                 ![k].proc = Killed(probe[k])]
    /\ UNCHANGED <<servers, spdPc, batchAt, results, returned>>
    /\ UNCHANGED otherThanSpd

\* httpGetViaSocks rejects: the SOCKS connection fails (line 786), or the
\* request times out, the socket reports an error, or it closes without a
\* response (lines 806-838)
ProbeFail(k) ==
    /\ spdPc = "batch" /\ k \in Batch(batchAt)
    /\ probe[k].st \in {"tunnel", "http"}
    /\ probe' = [probe EXCEPT ![k] = CaughtProbe(probe[k], ErrorMessage)]
    /\ UNCHANGED <<servers, spdPc, batchAt, results, returned>>
    /\ UNCHANGED otherThanSpd

\* line 512: i += MAX_CONCURRENT
NextBatchAt(i) == i + MAX_CONCURRENT

\* lines 518-523: once forEach has stored and logged the results of the
\* batch, only the latency stored in the Map and the child process remain of
\* a testServer call
Returned(i) ==
    [k \in 1..Len(servers) |->
        IF k \in Batch(i)
        THEN [NoProbe EXCEPT !.st = "returned", !.proc = probe[k].proc,
                             !.latency = probe[k].latency]
        ELSE probe[k]]

\* line 514: await Promise.all(batch.map(...)) resolves when every
\* testServer call of the batch has returned (faulty variant: a race, the
\* first result resumes the loop)
BatchSettledAny(i) == \E k \in Batch(i) : probe[k].st = "done"
BatchSettled(i) == \A k \in Batch(i) : probe[k].st = "done"

\* lines 514-527: Promise.all of the batch resolves; the results are stored
\* and the loop starts the next batch or the call returns
BatchDone ==
    /\ spdPc = "batch"
    /\ BatchSettled(batchAt)
    /\ LET m == SetAll(results, batchAt + 1, SliceEnd(batchAt))
           i == NextBatchAt(batchAt)
           rest == Returned(batchAt)
       IN /\ results' = m
          /\ batchAt' = i
          /\ IF i < Len(servers)
             THEN /\ \E spawned \in SUBSET Batch(i) :
                        probe' = [k \in 1..Len(servers) |->
                                    IF k \in Batch(i)
                                    THEN Started(i, spawned)[k]
                                    ELSE rest[k]]
                  /\ UNCHANGED <<spdPc, returned>>
             ELSE /\ spdPc' = "done"
                  /\ returned' = m
                  /\ probe' = rest
    /\ UNCHANGED servers
    /\ UNCHANGED otherThanSpd

----------------------------------------------------------------------------
(* SpeedTestService.generateTempConfig, lines 576-669 *)

\* an optional field: <<>> when it is undefined, <<v>> when it holds v
None == <<>>
Some(v) == <<v>>

\* `if (x)` for an object or an array, and `x || d` for a string and for a
\* boolean
Present(x) == x # None
StrOr(x, d) == IF x = None THEN d ELSE IF x[1] = "" THEN d ELSE x[1]
BoolOr(x, d) == IF x = None THEN d ELSE IF x[1] THEN x[1] ELSE d
Truthy(x) == StrOr(x, "") # ""

\* obj?.field of an optional object whose field is optional
Optional(obj, field) == IF obj = None THEN None ELSE obj[1][field]

\* line 577: String.prototype.toLowerCase on the protocol names that occur
LowerProtocol(s) == IF s = "VLESS" THEN "vless" ELSE s

\* server profiles: every protocol with every combination of the optional
\* settings, whether the protocol reads them or not
WsSettings ==
    { None,
      Some([path |-> Some(""), headers |-> None]),
      Some([path |-> Some("/ws"), headers |-> Some([Host |-> None])]),
      Some([path |-> Some("/ws"),
            headers |-> Some([Host |-> Some("cdn.example")])]) }
TlsSettings ==
    { None,
      Some([serverName |-> Some(""), allowInsecure |-> Some(FALSE),
            alpn |-> None]),
      Some([serverName |-> Some("sni.example"), allowInsecure |-> Some(TRUE),
            alpn |-> Some(<<"h2">>)]) }
RealitySettings ==
    { None,
      Some([publicKey |-> "pk", shortId |-> Some("")]),
      Some([publicKey |-> "pk", shortId |-> Some("ab")]) }
Hysteria2Settings ==
    { None,
      Some([obfs |-> None]),
      Some([obfs |-> Some([type |-> "salamander", password |-> "obfs-pw"])]) }
ShadowsocksSettings ==
    { None,
      Some([method |-> Some(""), password |-> Some("")]),
      Some([method |-> Some("chacha20-ietf-poly1305"),
            password |-> Some("ss-pw")]) }
ServerConfigs ==
    [ id : {"s1"},
      protocol : {"vless", "VLESS", "trojan", "hysteria2", "shadowsocks"},
      address : {"proxy.example"},
      port : {443},
      uuid : {"uuid-1"},
      flow : {None, Some("xtls-rprx-vision")},
      password : {"pw"},
      network : {None, Some("ws"), Some("grpc")},
      wsSettings : WsSettings,
      security : {"none", "tls", "reality"},
      tlsSettings : TlsSettings,
      realitySettings : RealitySettings,
      hysteria2Settings : Hysteria2Settings,
      shadowsocksSettings : ShadowsocksSettings ]

\* getRandomPort, lines 845-847: the ends of 60000..64999
TempPorts == {60000, 64999}

\* lines 591-602 and 607-618: the transport of a vless or trojan outbound
Transport(server) ==
    IF ~Truthy(server.network) THEN <<>>
    ELSE LET ws == server.network[1] = "ws" /\ Present(server.wsSettings)
             host == IF ws
                     THEN Optional(server.wsSettings[1].headers, "Host")
                     ELSE None
         IN "transport" :>
               ( [type |-> server.network[1]]
                 @@ (IF ws
                     THEN "path" :> StrOr(server.wsSettings[1].path, "/")
                     ELSE <<>>)
                 @@ (IF ws /\ Truthy(host)
                     THEN "headers" :> [Host |-> host[1]]
                     ELSE <<>>) )

\* lines 587-631: what the protocol adds to the outbound
ProtocolPart(protocol, server) ==
    CASE protocol = "vless" ->
            [uuid |-> server.uuid, flow |-> StrOr(server.flow, "")]
            @@ Transport(server)
      [] protocol = "trojan" ->
            [password |-> server.password] @@ Transport(server)
      [] protocol = "hysteria2" ->
            [password |-> server.password]
            @@ (IF Present(Optional(server.hysteria2Settings, "obfs"))
                THEN "obfs" :>
                       [type |-> server.hysteria2Settings[1].obfs[1].type,
                        password |->
                            server.hysteria2Settings[1].obfs[1].password]
                ELSE <<>>)
      [] protocol = "shadowsocks" ->
            [method |-> StrOr(Optional(server.shadowsocksSettings, "method"),
                              "aes-256-gcm"),
             password |-> StrOr(Optional(server.shadowsocksSettings,
                                         "password"), "")]
      [] OTHER -> <<>>

\* line 634 (faulty variant: reality is not taken for TLS)
HasTlsOnly(server) == server.security = "tls"
HasTls(server) == server.security = "tls" \/ server.security = "reality"

\* lines 634-652
TlsPart(server) ==
    IF ~HasTls(server) THEN <<>>
    ELSE "tls" :>
           ( [enabled |-> TRUE,
              server_name |-> StrOr(Optional(server.tlsSettings, "serverName"),
                                    server.address),
              insecure |-> BoolOr(Optional(server.tlsSettings, "allowInsecure"),
                                  FALSE)]
             @@ (IF Present(Optional(server.tlsSettings, "alpn"))
                 THEN "alpn" :> server.tlsSettings[1].alpn[1] ELSE <<>>)
             @@ (IF server.security = "reality"
                    /\ Present(server.realitySettings)
                 THEN "reality" :>
                        [enabled |-> TRUE,
                         public_key |-> server.realitySettings[1].publicKey,
                         short_id |->
                            StrOr(server.realitySettings[1].shortId, "")]
                 ELSE <<>>) )

\* lines 659-666 (faulty variant: the inbound listens on every address)
InboundAnyAddress(port) ==
    [type |-> "socks", tag |-> "socks-in", listen |-> "0.0.0.0",
     listen_port |-> port]
Inbound(port) ==
    [type |-> "socks", tag |-> "socks-in", listen |-> "127.0.0.1",
     listen_port |-> port]

\* lines 576-669
generateTempConfig(server, port) ==
    LET protocol == LowerProtocol(server.protocol)
        outbound == [type |-> protocol, tag |-> "proxy",
                     server |-> server.address, server_port |-> server.port]
                    @@ ProtocolPart(protocol, server) @@ TlsPart(server)
    IN [log |-> [level |-> "error"],
        inbounds |-> <<Inbound(port)>>,
        outbounds |-> <<outbound>>]

CfgIdle ==
    /\ cfgPc = "idle"
    /\ cfgServer = None
    /\ cfgPort = 0
    /\ cfgOut = None

\* lines 534 and 539: testServer has its port and calls generateTempConfig
CfgInit ==
    /\ cfgPc = "call"
    /\ cfgServer \in {Some(s) : s \in ServerConfigs}
    /\ cfgPort \in TempPorts
    /\ cfgOut = None

\* line 539: const config = this.generateTempConfig(server, port)
GenerateTempConfig ==
    /\ cfgPc = "call"
    /\ cfgOut' = Some(generateTempConfig(cfgServer[1], cfgPort))
    /\ cfgPc' = "done"
    /\ UNCHANGED <<cfgServer, cfgPort>>
    /\ UNCHANGED otherThanCfg

----------------------------------------------------------------------------
(* httpGetViaSocks, lines 802-839: the promise around the tunnel socket    *)

\* a chunk of data is a sequence of pieces of text
Chunks == { <<"HTTP/", "1.1 204 No Content">>, <<"HT">>,
            <<"<html>", "HTTP/", "1.1">> }

\* line 819: response.startsWith('HTTP/') (faulty variant: includes)
IncludesHttp(c) == \E i \in 1..Len(c) : c[i] = "HTTP/"
StartsWithHttp(c) == Len(c) > 0 /\ c[1] = "HTTP/"

\* resolve() and reject() settle a promise that is pending and do nothing
\* to one that is settled
SettledBy(now, outcome) == IF now = "pending" THEN outcome ELSE now

\* clearTimeout
ClearTimeout(t) == IF t = "armed" THEN "cleared" ELSE t

\* socket.destroy()
Destroy(s) == IF s = "closed" THEN s ELSE "destroyed"

HttpIdle ==
    /\ hSocket = "none"
    /\ hTimer = "none"
    /\ hReceived = FALSE
    /\ hSettled = "none"
    /\ hChunks = <<>>
    /\ hCalls = 0

\* lines 802-815: the tunnel is open, the timer is set and the request is
\* written
HttpInit ==
    /\ hSocket = "open"
    /\ hTimer = "armed"
    /\ hReceived = FALSE
    /\ hSettled = "pending"
    /\ hChunks = <<>>
    /\ hCalls = 0

\* lines 817-826: socket.on('data')
HttpData(c) ==
    /\ hSocket = "open"
    /\ Len(hChunks) < MaxChunks
    /\ hChunks' = Append(hChunks, c)
    /\ IF StartsWithHttp(c)
       THEN /\ hReceived' = TRUE
            /\ hTimer' = ClearTimeout(hTimer)
            /\ hSocket' = Destroy(hSocket)
            /\ hSettled' = SettledBy(hSettled, "resolved")
            /\ hCalls' = hCalls + 1
       ELSE UNCHANGED <<hReceived, hTimer, hSocket, hSettled, hCalls>>
    /\ UNCHANGED otherThanHttp

\* lines 806-811: the timer fires
HttpTimeout ==
    /\ hTimer = "armed"
    /\ hTimer' = "fired"
    /\ IF ~hReceived
       THEN /\ hSocket' = Destroy(hSocket)
            /\ hSettled' = SettledBy(hSettled, "timeout")
            /\ hCalls' = hCalls + 1
       ELSE UNCHANGED <<hSocket, hSettled, hCalls>>
    /\ UNCHANGED <<hReceived, hChunks>>
    /\ UNCHANGED otherThanHttp

\* lines 828-831: socket.on('error'); the socket is destroyed by the error
HttpError ==
    /\ hSocket = "open"
    /\ hSocket' = "destroyed"
    /\ hTimer' = ClearTimeout(hTimer)
    /\ hSettled' = SettledBy(hSettled, "error")
    /\ hCalls' = hCalls + 1
    /\ UNCHANGED <<hReceived, hChunks>>
    /\ UNCHANGED otherThanHttp

\* lines 833-838: socket.on('close'), after destroy(), after an error, or
\* when the other end closed the connection
HttpClose ==
    /\ hSocket \in {"open", "destroyed"}
    /\ hSocket' = "closed"
    /\ hTimer' = ClearTimeout(hTimer)
    /\ IF ~hReceived
       THEN /\ hSettled' = SettledBy(hSettled, "closed")
            /\ hCalls' = hCalls + 1
       ELSE UNCHANGED <<hSettled, hCalls>>
    /\ UNCHANGED <<hReceived, hChunks>>
    /\ UNCHANGED otherThanHttp

----------------------------------------------------------------------------
(* ConnectionTopology (src/unnamed/part_000): the links of the diagram     *)
(* (lines 265-325), the hover handlers (lines 711-717) and highlightedIds  *)
(* (lines 332-627)                                                         *)

\* ids of nodes and links; a link is known by its index in `links`, from 0
SourceId == "source"
MidId(m) == "mid-" \o ToString(m)
OutId(o) == "out-" \o ToString(o)
LinkId(i) == "link-" \o ToString(i)

\* the flows of the diagram: for each middle node, in order, the outbounds
\* its connections go to (at least one)
Flows ==
    UNION {[1..n -> (SUBSET (1..MaxOutbounds)) \ {{}}] : n \in 0..MaxMiddles}

\* lines 265-287: one link from the source to each middle node
SourceLinks(f) == [m \in 1..Len(f) |-> [source |-> SourceId, target |-> MidId(m)]]

\* lines 289-325: for each middle node, one link to each outbound it has a
\* flow to, in the order of the outbounds
RECURSIVE OutLinks(_, _, _)
OutLinks(f, m, o) ==
    IF m > Len(f) THEN <<>>
    ELSE IF o > MaxOutbounds THEN OutLinks(f, m + 1, 1)
    ELSE (IF o \in f[m] THEN <<[source |-> MidId(m), target |-> OutId(o)]>>
          ELSE <<>>) \o OutLinks(f, m, o + 1)

LinkList(f) == SourceLinks(f) \o OutLinks(f, 1, 1)

\* what the pointer can enter: a node or a link that is drawn
Drawn(links) ==
    {[type |-> "node", id |-> SourceId]}
    \cup {[type |-> "node", id |-> links[i].target] : i \in 1..Len(links)}
    \cup {[type |-> "link", id |-> LinkId(i - 1)] : i \in 1..Len(links)}

NoHover == [type |-> "none", id |-> ""]

\* parseInt(hovered.id.split('-')[1]) for the id of a link that is drawn
ParseIndex(id, links) == CHOOSE i \in 0..(Len(links) - 1) : LinkId(i) = id

\* lines 555-561: the nodes in focus
FocusNodes(h, links) ==
    IF h.type = "node" THEN {h.id}
    ELSE LET l == links[ParseIndex(h.id, links) + 1]
         IN {l.source, l.target}

\* lines 564-576: everything that reaches the set along the links
RECURSIVE Upstream(_, _)
Upstream(s, links) ==
    LET more == {links[i].source : i \in {j \in 1..Len(links) :
                                             links[j].target \in s}}
    IN IF more \subseteq s THEN s ELSE Upstream(s \cup more, links)

\* lines 579-589: everything the set reaches along the links
RECURSIVE Downstream(_, _)
Downstream(s, links) ==
    LET more == {links[i].target : i \in {j \in 1..Len(links) :
                                             links[j].source \in s}}
    IN IF more \subseteq s THEN s ELSE Downstream(s \cup more, links)

\* lines 361-380: the first pass
FirstPass(h, links) ==
    IF h.type = "node"
    THEN UNION {{LinkId(i - 1), links[i].source, links[i].target} :
                   i \in {j \in 1..Len(links) :
                            links[j].source = h.id \/ links[j].target = h.id}}
    ELSE FocusNodes(h, links)

\* lines 332-627: the set the memo returns. The sets built in lines 435-501
\* are not read afterwards; the body of the pass loop (lines 513-622) runs
\* once per link and gives the same additions every time.
highlightedIds(h, links) ==
    IF h = NoHover THEN {}
    ELSE LET focus == FocusNodes(h, links)
             allNodes == Upstream(focus, links) \cup Downstream(focus, links)
         IN {h.id} \cup FirstPass(h, links)
            \cup (IF Len(links) = 0 THEN {}
                  ELSE allNodes \cup
                       {LinkId(i - 1) : i \in {j \in 1..Len(links) :
                            /\ links[j].source \in allNodes
                            /\ links[j].target \in allNodes}})

TopoIdle ==
    /\ topoLinks = <<>>
    /\ hovered = NoHover
    /\ highlighted = {}

\* the component is rendered with the links of some flows, nothing hovered
TopoInit ==
    /\ topoLinks \in {LinkList(f) : f \in Flows}
    /\ hovered = NoHover
    /\ highlighted = {}

\* lines 715-717 and the memo of line 332, which the render that follows
\* setHovered recomputes
HandleMouseEnter ==
    /\ \E h \in Drawn(topoLinks) :
          /\ hovered # h
          /\ hovered' = h
          /\ highlighted' = highlightedIds(h, topoLinks)
    /\ UNCHANGED topoLinks
    /\ UNCHANGED otherThanTopo

\* lines 711-713
HandleMouseLeave ==
    /\ hovered # NoHover
    /\ hovered' = NoHover
    /\ highlighted' = highlightedIds(NoHover, topoLinks)
    /\ UNCHANGED topoLinks
    /\ UNCHANGED otherThanTopo

----------------------------------------------------------------------------
(* registerSpeedTestHandlers, speed-test-handlers.ts lines 14-63: the      *)
(* handler of SERVER_SPEED_TEST                                            *)

\* milliseconds a TCP connect takes when it succeeds
ConnectMs == {12}

IpcIdle ==
    /\ ipcPc = "idle"
    /\ ipcServers = <<>>
    /\ ipcSocket = <<>>
    /\ ipcResults = {}

\* the renderer invokes SERVER_SPEED_TEST; config.servers holds n servers
IpcInit ==
    /\ ipcPc = "invoked"
    /\ ipcServers \in {[k \in 1..n |-> k] : n \in 0..MaxServers}
    /\ ipcSocket = [k \in 1..Len(ipcServers) |-> "none"]
    /\ ipcResults = {}

\* lines 19-48 and 57: the configuration is loaded and config.servers.map
\* runs its callback for every server up to socket.connect, then the
\* handler awaits Promise.all
IpcInvoke ==
    /\ ipcPc = "invoked"
    /\ ipcSocket' = [k \in 1..Len(ipcServers) |-> "connecting"]
    /\ ipcPc' = "waiting"
    /\ UNCHANGED <<ipcServers, ipcResults>>
    /\ UNCHANGED otherThanIpc

\* line 19: configManager.loadConfig() rejects, and the handler with it
IpcLoadFailed ==
    /\ ipcPc = "invoked"
    /\ ipcPc' = "rejected"
    /\ UNCHANGED <<ipcServers, ipcSocket, ipcResults>>
    /\ UNCHANGED otherThanIpc

\* lines 31-34 and 50: 'connect'; the elapsed time is the result
IpcConnected(k) ==
    /\ ipcPc = "waiting" /\ ipcSocket[k] = "connecting"
    /\ ipcSocket' = [ipcSocket EXCEPT ![k] = "destroyed"]
    /\ \E ms \in ConnectMs :
          ipcResults' = MapSet(ipcResults, ipcServers[k], ms)
    /\ UNCHANGED <<ipcPc, ipcServers>>
    /\ UNCHANGED otherThanIpc

\* lines 36-44 and 51-54: 'timeout' after 5 s or 'error'; the result is -1
IpcUnreachable(k) ==
    /\ ipcPc = "waiting" /\ ipcSocket[k] = "connecting"
    /\ ipcSocket' = [ipcSocket EXCEPT ![k] = "destroyed"]
    /\ ipcResults' = MapSet(ipcResults, ipcServers[k], -1)
    /\ UNCHANGED <<ipcPc, ipcServers>>
    /\ UNCHANGED otherThanIpc

\* lines 57-58: Promise.all resolves and the results are returned
IpcReturn ==
    /\ ipcPc = "waiting"
    /\ \A k \in 1..Len(ipcServers) : ipcSocket[k] = "destroyed"
    /\ ipcPc' = "returned"
    /\ UNCHANGED <<ipcServers, ipcSocket, ipcResults>>
    /\ UNCHANGED otherThanIpc

----------------------------------------------------------------------------
(* downloadFile (lines 335-383) and the unpacking of extractCore (lines     *)
(* 393-407), as updateCore runs them on the URL it was given                *)

\* URL pathnames and file names are sequences of parts; a part that starts
\* with a dot is one of these
DotParts == {".zip", ".tar", ".gz", ".bin"}

\* path.extname: from the last dot of the basename to its end, '' when the
\* basename has no dot
Extname(p) == IF Len(p) > 1 /\ p[Len(p)] \in DotParts THEN p[Len(p)] ELSE ""

\* the pathname of the asset URL of an archive with suffix .zip or .tar.gz
AssetPath(suffix) ==
    IF suffix = ".zip" THEN <<"download", "sing-box", ".zip">>
    ELSE <<"download", "sing-box", ".tar", ".gz">>

\* the asset URLs checkUpdate can hand out on a platform (line 331)
AssetPaths(p) == {AssetPath(Ext(p)), AssetPath(".zip")}

\* what the archive behind an asset URL is
ArchiveOf(p) == IF Extname(p) = ".zip" THEN "zip" ELSE "targz"

\* pathnames a Location header can carry for an asset: a storage object
\* without extension, one with another extension, or a mirror that keeps the
\* file name
RedirectPaths(asset) ==
    { <<"github-production-release-asset", "0a1b">>,
      <<"storage", "blob", ".bin">>,
      <<"mirror">> \o Tail(asset) }

DlIdle ==
    /\ dlPc = "idle"
    /\ dlAsset = <<>>
    /\ dlUrl = <<>>
    /\ dlFiles = <<>>
    /\ dlPath = <<>>
    /\ dlMethod = "none"
    /\ dlEnd = "none"

DlInit ==
    /\ dlPc = "call"
    /\ dlAsset \in AssetPaths(platform)
    /\ dlUrl = dlAsset
    /\ dlFiles = <<>>
    /\ dlPath = <<>>
    /\ dlMethod = "none"
    /\ dlEnd = "none"

\* lines 336-352: the extension of the temp file, from the URL of this call
TempExt(url, p) ==
    LET urlExt == Extname(url)
        ext == IF urlExt # "" THEN urlExt ELSE ".zip"
    IN IF p = "win32" /\ ext # ".zip" THEN ".zip" ELSE ext

\* line 354: sing-box-core-update-<timestamp><ext>
TempPath(ext) == <<"sing-box-core-update", ext>>

\* lines 335-358: a call of downloadFile, the outermost or one made for a
\* redirect: the temp file is created, then the request is sent
DownloadFile ==
    /\ dlPc = "call"
    /\ dlFiles' = Append(dlFiles, TempPath(TempExt(dlUrl, platform)))
    /\ dlPc' = "request"
    /\ UNCHANGED <<dlAsset, dlUrl, dlPath, dlMethod, dlEnd>>
    /\ UNCHANGED otherThanDl

\* lines 359-365: 301 or 302 with a Location header; downloadFile calls
\* itself with that URL and settles as the inner call does. The file of this
\* call stays behind, empty.
Redirected ==
    /\ dlPc = "request"
    /\ Len(dlFiles) <= MaxRedirects
    /\ \E u \in RedirectPaths(dlAsset) : dlUrl' = u
    /\ dlPc' = "call"
    /\ UNCHANGED <<dlAsset, dlFiles, dlPath, dlMethod, dlEnd>>
    /\ UNCHANGED otherThanDl

\* lines 372-377: status 200; the body is written to the file of this call
\* and its path is what the outermost call resolves with
Downloaded ==
    /\ dlPc = "request"
    /\ dlPath' = dlFiles[Len(dlFiles)]
    /\ dlPc' = "extract"
    /\ UNCHANGED <<dlAsset, dlUrl, dlFiles, dlMethod, dlEnd>>
    /\ UNCHANGED otherThanDl

\* lines 367-370 and 378-381: another status (a redirect without Location
\* included) rejects and leaves the file; a request error unlinks the file
\* of this call and rejects
DownloadRejected ==
    /\ dlPc = "request"
    /\ \E unlinked \in BOOLEAN :
          dlFiles' = IF unlinked THEN SubSeq(dlFiles, 1, Len(dlFiles) - 1)
                     ELSE dlFiles
    /\ dlPc' = "done"
    /\ dlEnd' = "download failed"
    /\ UNCHANGED <<dlAsset, dlUrl, dlPath, dlMethod>>
    /\ UNCHANGED otherThanDl

\* lines 394-406: the command extractCore runs on the file
UnpackMethod(path, p) ==
    IF p = "win32" THEN "Expand-Archive"
    ELSE IF EndsWith(path, ".zip") THEN "unzip" ELSE "tar"

\* whether the command can unpack the archive: Expand-Archive and unzip read
\* zip archives only, tar -xzf reads gzipped tar archives (and, where tar is
\* bsdtar, zip archives too)
Unpacks(method, archive) ==
    IF archive = "zip" THEN (IF method = "tar" THEN BOOLEAN ELSE {TRUE})
    ELSE {method = "tar"}

\* lines 393-407 and 435-437
Unpack ==
    /\ dlPc = "extract"
    /\ dlMethod' = UnpackMethod(dlPath, platform)
    /\ \E ok \in Unpacks(dlMethod', ArchiveOf(dlAsset)) :
          dlEnd' = IF ok THEN "unpacked" ELSE "unpack failed"
    /\ dlPc' = "done"
    /\ UNCHANGED <<dlAsset, dlUrl, dlFiles, dlPath>>
    /\ UNCHANGED otherThanDl

----------------------------------------------------------------------------
(* updateCore, lines 119-206 *)

\* line 120: the single-flight test
\* (faulty variant: the test is missing)
BusyNever == FALSE
Busy == isUpdating

\* a call that has returned or thrown keeps what it did (whether it stopped
\* the runtime included); its other locals are gone
Settled(c, outcome, restore, endInstall) ==
    [call EXCEPT ![c].pc = "done", ![c].outcome = outcome,
                 ![c].restore = restore, ![c].endInstall = endInstall,
                 ![c].url = "none", ![c].core = Absent, ![c].i = 0]

\* the catch block is entered with the error of step `where`
Fail(c, where) == [call EXCEPT ![c].pc = "catch", ![c].failedIn = where]

\* lines 119-129: the busy test, the flag, and the start of the download
\* (downloadFile creates its temp file before the request is made)
UpdateCore(c, u) ==
    /\ call[c].pc = "idle"
    /\ \A d \in Calls : d < c => call[d].pc # "idle"
    /\ IF Busy
       THEN /\ call' = [call EXCEPT ![c].pc = "done", ![c].outcome = "busy",
                                    ![c].raised = "busy",
                                    ![c].startRunning = running,
                                    ![c].startInstall = install,
                                    ![c].endInstall = install]
            /\ UNCHANGED <<isUpdating, temps>>
       ELSE /\ isUpdating' = TRUE
            /\ temps' = temps \cup {<<"download", c>>}
            /\ call' = [call EXCEPT ![c].pc = "download", ![c].url = u,
                                    ![c].startRunning = running,
                                    ![c].startInstall = install]
    /\ UNCHANGED otherThanUpd
    /\ UNCHANGED <<platform, proxyManager, running, install, installMode, bak>>

\* downloadFile resolves (lines 372-377)
DownloadOk(c) ==
    /\ call[c].pc = "download"
    /\ call' = [call EXCEPT ![c].pc = "extract"]
    /\ UNCHANGED otherThanUpd
    /\ UNCHANGED <<platform, proxyManager, running, isUpdating, install,
                   installMode, bak, temps>>

\* downloadFile rejects: a non-200 status leaves the temp file (lines 367-370),
\* a request error unlinks it (lines 378-381)
DownloadFail(c) ==
    /\ call[c].pc = "download"
    /\ \E unlinked \in BOOLEAN :
          temps' = IF unlinked THEN temps \ {<<"download", c>>} ELSE temps
    /\ call' = Fail(c, "download")
    /\ UNCHANGED otherThanUpd
    /\ UNCHANGED <<platform, proxyManager, running, isUpdating, install,
                   installMode, bak>>

\* extractCore (lines 385-438) ends with the executable's path ("ok"), or
\* fails: mkdirSync throws, the unpacking command fails, or findFile finds
\* no file with the executable name at any depth
ExtractEnds == {"ok", "mkdir", "unpack", "notfound"}

\* lines 391, 429-431 and 435-437: every ending but "ok" throws
\* (faulty variant: the null of findFile is returned as the path)
ExtractThrowsUnlessMissing(kind) == kind \in {"mkdir", "unpack"}
ExtractThrows(kind) == kind # "ok"

\* extractCore (lines 385-438): makes the extraction directory, unpacks and
\* looks for the executable; any failure is rethrown
Extract(c) ==
    /\ call[c].pc = "extract"
    /\ \E kind \in ExtractEnds :
          /\ temps' = temps
                \cup (IF kind # "mkdir" THEN {<<"dir", c>>} ELSE {})
                \cup (IF kind = "ok" THEN {<<"core", c>>} ELSE {})
          /\ IF ExtractThrows(kind)
             THEN call' = Fail(c, "extract")
             ELSE call' = [call EXCEPT
                     ![c].pc = "stop",
                     ![c].core = IF kind = "ok" THEN NewBin(call[c].url)
                                 ELSE Absent]
    /\ UNCHANGED otherThanUpd
    /\ UNCHANGED <<platform, proxyManager, running, isUpdating, install,
                   installMode, bak>>

\* lines 137-147: stop the proxy when it runs
StopRuntime(c) ==
    /\ call[c].pc = "stop"
    /\ IF proxyManager /\ running
       THEN \E ok \in BOOLEAN :
               IF ok
               THEN /\ running' = FALSE
                    /\ call' = [call EXCEPT ![c].pc = "settle",
                                            ![c].wasRunning = TRUE]
               ELSE /\ call' = Fail(c, "stop")
                    /\ UNCHANGED running
       ELSE /\ call' = [call EXCEPT ![c].pc = "backup"]
            /\ UNCHANGED running
    /\ UNCHANGED otherThanUpd
    /\ UNCHANGED <<platform, proxyManager, isUpdating, install, installMode,
                   bak, temps>>

\* line 145: the 2 s settle delay has passed
Settle(c) ==
    /\ call[c].pc = "settle"
    /\ call' = [call EXCEPT ![c].pc = "backup"]
    /\ UNCHANGED otherThanUpd
    /\ UNCHANGED <<platform, proxyManager, running, isUpdating, install,
                   installMode, bak, temps>>

\* backupCurrentCore (lines 444-452): the effect of a successful backup on
\* the two paths, <<install, bak>>
\* (faulty variants: no backup is made; the binary is moved, not copied)
BackupSkipped == <<install, bak>>
BackupByMove == <<Absent, install>>
BackupResult == <<install, install>>

BackupCurrentCore(c) ==
    /\ call[c].pc = "backup"
    /\ IF install # Absent
       THEN \E ok \in BOOLEAN :
               IF ok
               THEN /\ install' = BackupResult[1]
                    /\ bak' = BackupResult[2]
                    /\ call' = [call EXCEPT ![c].pc = "copy", ![c].i = 0]
               ELSE /\ bak' \in FailedCopyDest(bak)
                    /\ call' = Fail(c, "backup")
                    /\ UNCHANGED install
       ELSE /\ call' = [call EXCEPT ![c].pc = "copy", ![c].i = 0]
            /\ UNCHANGED <<install, bak>>
    /\ UNCHANGED otherThanUpd
    /\ UNCHANGED <<platform, proxyManager, running, isUpdating, installMode,
                   temps>>

\* lines 154-160: the target directory is made when it is missing (then no
\* binary is installed), which can fail
MkdirFail(c) ==
    /\ call[c].pc = "copy" /\ call[c].i = 0
    /\ install = Absent
    /\ call' = Fail(c, "mkdir")
    /\ UNCHANGED otherThanUpd
    /\ UNCHANGED <<platform, proxyManager, running, isUpdating, install,
                   installMode, bak, temps>>

\* copyFileWithRetry (lines 211-238), one pass of its loop; the wait before
\* the next pass is the gap between two steps
\* (faulty variant: the first failure is final)
LastAttemptFirst(i) == i = 0
LastAttempt(i) == i = Retries - 1

\* error.code of a failing fs.copyFileSync
CopyErrors == {"EBUSY", "EPERM", "ENOSPC"}

\* line 223: the test that guards taskkill /F /IM sing-box.exe
\* (faulty variant: the platform is not looked at)
ForceKillAnywhere(p, code) == code \in {"EBUSY", "EPERM"}
ForceKill(p, code) == p = "win32" /\ code \in {"EBUSY", "EPERM"}

\* lines 223-235 after a failed attempt that is not the last: what became of
\* the forced termination ("none": not attempted; "failed": execSync threw
\* and the error was ignored); the loop goes on to its next pass either way
Backoff(c, code) ==
    \E forced \in (IF ForceKill(platform, code) THEN {"ok", "failed"}
                                                ELSE {"none"}) :
       call' = [call EXCEPT ![c].i = call[c].i + 1, ![c].forced = forced]

CopyAttempt(c) ==
    /\ call[c].pc = "copy"
    /\ \E ok \in BOOLEAN :
          IF ok
          THEN /\ install' = call[c].core
               /\ installMode' = "-"
               /\ call' = [call EXCEPT ![c].pc = "chmod", ![c].forced = "none"]
          ELSE /\ install' \in FailedCopyDest(install)
               /\ installMode' = IF install' = install THEN installMode ELSE "-"
               /\ IF LastAttempt(call[c].i)
                  THEN call' = [Fail(c, "copy") EXCEPT ![c].forced = "none"]
                  ELSE \E code \in CopyErrors : Backoff(c, code)
    /\ UNCHANGED otherThanUpd
    /\ UNCHANGED <<platform, proxyManager, running, isUpdating, bak, temps>>

\* line 167: mode 0o755 (faulty variant: a mode without the executable bit)
Mode644 == "-"
Mode755 == "x"

\* lines 166-168: chmod 0o755 off Windows
Chmod(c) ==
    /\ call[c].pc = "chmod"
    /\ IF platform # "win32"
       THEN \E ok \in BOOLEAN :
               IF ok
               THEN /\ installMode' = Mode755
                    /\ call' = [call EXCEPT ![c].pc = "cleanup"]
               ELSE /\ call' = Fail(c, "chmod")
                    /\ UNCHANGED installMode
       ELSE /\ call' = [call EXCEPT ![c].pc = "cleanup"]
            /\ UNCHANGED installMode
    /\ UNCHANGED otherThanUpd
    /\ UNCHANGED <<platform, proxyManager, running, isUpdating, install, bak,
                   temps>>

\* line 204: finally
\* (faulty variant: the flag is left as it is)
FinallyKeep == isUpdating
Finally == FALSE

\* lines 183-192: the block headed "restart the proxy" only writes a log
\* line; whether the runtime runs is left as it is
\* (faulty variant: the block starts a runtime that was stopped)
AfterRestartBlockStarted(wasRunning) == running \/ (wasRunning /\ proxyManager)
AfterRestartBlock(wasRunning) == running

\* lines 173-181: an unlinkSync that throws ends the cleanup; the error is
\* caught and ignored (faulty variant: it reaches the catch of updateCore)
CleanupEndsEscalated(failed) == IF failed THEN "error" ELSE "ok"
CleanupEnds(failed) == "ok"

\* lines 173-194 and 203-205: best-effort cleanup, return true, finally.
\* tempPath is the file downloadFile resolved with; the extraction
\* directory is never removed.
Cleanup(c) ==
    /\ call[c].pc = "cleanup"
    /\ \E n \in 0..2 :  \* unlinkSync calls that succeed before one throws
          /\ temps' = temps \ ( (IF n >= 1 THEN {<<"download", c>>} ELSE {})
                                \cup (IF n >= 2 THEN {<<"core", c>>} ELSE {}) )
          /\ call' = Settled(c, CleanupEnds(n < 2), "none", install)
    /\ running' = AfterRestartBlock(call[c].wasRunning)
    /\ isUpdating' = Finally
    /\ UNCHANGED otherThanUpd
    /\ UNCHANGED <<platform, proxyManager, install, installMode, bak>>

\* lines 200-202 and 459-467: restoreBackup catches and logs its own
\* failure, and the catch block rethrows the error it was entered with
\* (faulty variant: a failing restore replaces the error)
ThrownLast(original, restore) ==
    IF restore = "failed" THEN "restore" ELSE original
Thrown(original, restore) == original

\* line 202: throw error
Rethrown(c, restore, endInstall) ==
    [Settled(c, "error", restore, endInstall) EXCEPT
        ![c].raised = Thrown(call[c].failedIn, restore)]

\* restoreBackup (lines 454-469) as called by the catch block (lines 195-202),
\* then the rethrow and finally
Catch(c) ==
    /\ call[c].pc = "catch"
    /\ IF bak # Absent
       THEN \E ok \in BOOLEAN :
               IF ok
               THEN /\ install' = bak
                    /\ \E chmodOk \in BOOLEAN :
                          installMode' = IF platform # "win32" /\ chmodOk
                                         THEN "x" ELSE "-"
                    /\ call' = Rethrown(c, "ok", bak)
               ELSE /\ install' \in FailedCopyDest(install)
                    /\ installMode' = IF install' = install THEN installMode
                                      ELSE "-"
                    /\ call' = Rethrown(c, "failed", install')
       ELSE /\ call' = Rethrown(c, "skipped", install)
            /\ UNCHANGED <<install, installMode>>
    /\ isUpdating' = Finally
    /\ UNCHANGED otherThanUpd
    /\ UNCHANGED <<platform, proxyManager, running, bak, temps>>

UpdNext ==
    \/ \E c \in Calls, u \in Urls : UpdateCore(c, u)
    \/ \E c \in Calls : DownloadOk(c)
    \/ \E c \in Calls : DownloadFail(c)
    \/ \E c \in Calls : Extract(c)
    \/ \E c \in Calls : StopRuntime(c)
    \/ \E c \in Calls : Settle(c)
    \/ \E c \in Calls : BackupCurrentCore(c)
    \/ \E c \in Calls : MkdirFail(c)
    \/ \E c \in Calls : CopyAttempt(c)
    \/ \E c \in Calls : Chmod(c)
    \/ \E c \in Calls : Cleanup(c)
    \/ \E c \in Calls : Catch(c)

Init == UpdInit /\ CmpIdle /\ ChkIdle /\ SpdIdle /\ DlIdle /\ HttpIdle /\ CfgIdle
        /\ IpcIdle /\ TopoIdle
Next == UpdNext
Spec == Init /\ [][Next]_vars

InitCmp == CmpInit /\ UpdIdle /\ ChkIdle /\ SpdIdle /\ DlIdle /\ HttpIdle
             /\ CfgIdle /\ IpcIdle /\ TopoIdle
NextCmp == Compare
SpecCmp == InitCmp /\ [][NextCmp]_vars

\* checkUpdate runs on any platform, with or without a proxy manager
InitCheck ==
    /\ ChkInit
    /\ CmpIdle
    /\ SpdIdle
    /\ DlIdle
    /\ HttpIdle
    /\ CfgIdle
    /\ IpcIdle /\ TopoIdle
    /\ platform \in ChkPlatforms
    /\ proxyManager \in BOOLEAN
    /\ running = FALSE
    /\ isUpdating = FALSE
    /\ install = "B0"
    /\ installMode = "x"
    /\ bak = Absent
    /\ temps = {}
    /\ call = [c \in Calls |-> NoCall]
NextCheck == GetCurrentVersion \/ FetchReleases \/ Evaluate
SpecCheck == InitCheck /\ [][NextCheck]_vars

InitSpeed == SpdInit /\ UpdIdle /\ CmpIdle /\ ChkIdle /\ DlIdle /\ HttpIdle
               /\ CfgIdle /\ IpcIdle /\ TopoIdle
NextSpeed ==
    \/ TestAllServers
    \/ \E k \in 1..Len(servers) : Ready(k)
    \/ \E k \in 1..Len(servers) : StartFail(k)
    \/ \E k \in 1..Len(servers) : StartTimer(k)
    \/ \E k \in 1..Len(servers) : PortOk(k)
    \/ \E k \in 1..Len(servers) : PortTimeout(k)
    \/ \E k \in 1..Len(servers) : TunnelOk(k)
    \/ \E k \in 1..Len(servers) : ProbeOk(k)
    \/ \E k \in 1..Len(servers) : ProbeFail(k)
    \/ BatchDone
SpecSpeed == InitSpeed /\ [][NextSpeed]_vars

\* the event loop runs every callback that is due: the loop of
\* testAllServers goes on when its await resolves, and a stage that is not
\* left otherwise is left through its timer (2 s, line 719; 3 s, line 544;
\* TIMEOUT_MS, lines 797 and 806) or, for a spawn that made no process,
\* through the 'error' event
Due ==
    \/ TestAllServers
    \/ BatchDone
    \/ \E k \in 1..Len(servers) :
          StartFail(k) \/ PortTimeout(k) \/ ProbeFail(k)
\* termination does not depend on the ids: the lists without a repeated id
InitFair == InitSpeed /\ \A k \in 1..Len(servers) : servers[k] = k
FairSpeed == InitFair /\ [][NextSpeed]_vars /\ WF_vars(Due)

InitDownload ==
    /\ platform \in Platforms
    /\ DlInit
    /\ CmpIdle
    /\ ChkIdle
    /\ SpdIdle
    /\ HttpIdle
    /\ CfgIdle
    /\ IpcIdle /\ TopoIdle
    /\ proxyManager = FALSE
    /\ running = FALSE
    /\ isUpdating = TRUE
    /\ install = "B0"
    /\ installMode = "x"
    /\ bak = Absent
    /\ temps = {}
    /\ call = [c \in Calls |-> NoCall]
NextDownload ==
    \/ DownloadFile
    \/ Redirected
    \/ Downloaded
    \/ DownloadRejected
    \/ Unpack
SpecDownload == InitDownload /\ [][NextDownload]_vars

InitHttp == HttpInit /\ UpdIdle /\ CmpIdle /\ ChkIdle /\ SpdIdle /\ DlIdle
              /\ CfgIdle /\ IpcIdle /\ TopoIdle
NextHttp ==
    \/ \E c \in Chunks : HttpData(c)
    \/ HttpTimeout
    \/ HttpError
    \/ HttpClose
SpecHttp == InitHttp /\ [][NextHttp]_vars

InitConfig == CfgInit /\ UpdIdle /\ CmpIdle /\ ChkIdle /\ SpdIdle /\ DlIdle
                /\ HttpIdle /\ IpcIdle /\ TopoIdle
NextConfig == GenerateTempConfig
SpecConfig == InitConfig /\ [][NextConfig]_vars

InitIpc == IpcInit /\ UpdIdle /\ CmpIdle /\ ChkIdle /\ SpdIdle /\ DlIdle
             /\ HttpIdle /\ CfgIdle /\ TopoIdle
NextIpc ==
    \/ IpcInvoke
    \/ IpcLoadFailed
    \/ \E k \in 1..Len(ipcServers) : IpcConnected(k)
    \/ \E k \in 1..Len(ipcServers) : IpcUnreachable(k)
    \/ IpcReturn
SpecIpc == InitIpc /\ [][NextIpc]_vars

InitTopology == TopoInit /\ UpdIdle /\ CmpIdle /\ ChkIdle /\ SpdIdle /\ DlIdle
                  /\ HttpIdle /\ CfgIdle /\ IpcIdle
NextTopology ==
    \/ HandleMouseEnter
    \/ HandleMouseLeave
SpecTopology == InitTopology /\ [][NextTopology]_vars

----------------------------------------------------------------------------
(* Properties of updateCore, checked under Spec *)

Active == {c \in Calls : call[c].pc \in InProgress}
Raised(c) == call[c].pc = "done" /\ call[c].outcome \in {"error", "busy"}

\* C1: a call made while another updateCore is in flight is rejected as busy
\* in the same step, which changes neither the file system (install path,
\* backup, temp artifacts), nor the runtime, nor isUpdating; so at most one
\* accepted call is in progress at any time.
C1_SingleFlight ==
    /\ [](Cardinality(Active) <= 1)
    /\ [][\A c \in Calls :
            (call[c].pc = "idle" /\ call'[c].pc # "idle" /\ isUpdating)
            => /\ call'[c].pc = "done"
               /\ call'[c].outcome = "busy"
               /\ isUpdating'
               /\ UNCHANGED <<install, installMode, bak, temps, running>>
               /\ \A d \in Calls \ {c} : call'[d] = call[d]]_vars

C1_Witness ==
    \E c, d \in Calls :
        /\ call[c].outcome = "busy"
        /\ call[d].pc \in {"backup", "copy", "chmod"}
        /\ isUpdating

\* C2 (as claimed): every updateCore call that raised an error left the
\* install path with the content it had when the call began.
C2_FailedCallKeepsInstall ==
    \A c \in Calls : Raised(c) => call[c].endInstall = call[c].startInstall

C4_FlagClearedOnSettle ==
    /\ isUpdating <=> (Active # {})
    /\ \A c \in Calls :
          (call[c].pc = "done" /\ call[c].outcome \in {"ok", "error"}
             /\ \A d \in Calls : d > c => call[d].pc = "idle")
          => ~isUpdating

C4_Witness ==
    \E c, d \in Calls :
        /\ call[c].pc = "done" /\ call[c].outcome = "error"
        /\ c < d /\ call[d].pc = "download" /\ isUpdating

\* C9: with a binary installed when an accepted updateCore call begins, the
\* install path and <path>.bak are never both missing, in any state of the
\* update (download to rollback) or after it; right after
\* the backup both hold the binary (the backup copies, it does not move).
C9_NeverBothMissing ==
    \A c \in Calls :
        (call[c].pc # "idle" /\ call[c].outcome # "busy"
           /\ call[c].startInstall # Absent)
        => /\ install # Absent \/ bak # Absent
           /\ (call[c].pc = "copy" /\ call[c].i = 0)
                => (install = call[c].startInstall
                    /\ bak = call[c].startInstall)

C9_Witness ==
    \E c \in Calls :
        /\ call[c].pc = "copy" /\ call[c].i = Retries - 1
        /\ call[c].startInstall = "B0"
        /\ install = Absent /\ bak = "B0"

----------------------------------------------------------------------------
(* Properties of compareVersions, checked under SpecCmp *)

\* C8: compareVersions orders dotted-numeric strings totally: the result is
\* -1, 0 or 1, compare(a,b) = -compare(b,a), compare(a,a) = 0, and the order
\* is transitive (a <= b and b <= c give a <= c; a = b and b = c give a = c),
\* also for strings with different numbers of components.
C8_TotalOrder ==
    cmpDone =>
        /\ cmp.ab \in {-1, 0, 1}
        /\ cmp.ab = -cmp.ba
        /\ cmp.aa = 0
        /\ (cmp.ab <= 0 /\ cmp.bc <= 0) => cmp.ac <= 0
        /\ (cmp.ab = 0 /\ cmp.bc = 0) => cmp.ac = 0
        /\ (cmp.ab < 0 /\ cmp.bc <= 0) => cmp.ac < 0

C8_Witness ==
    /\ cmpDone
    /\ Len(va) < Len(vb) /\ Len(vb) < Len(vc)
    /\ cmp.ab < 0 /\ cmp.bc = 0 /\ cmp.ac < 0

----------------------------------------------------------------------------
(* Properties of checkUpdate, checked under SpecCheck *)

\* C5: checkUpdate never throws: it always returns a result, and whenever a
\* step failed (reading the version, the request, a non-200 status, the JSON
\* parse, the evaluation of the releases) the result has hasUpdate = false
\* and a non-empty error.
C5_NeverThrows ==
    /\ ~result.threw
    /\ chkPc = "done" =>
          /\ result.returned
          /\ chkFailure # "none" =>
                /\ ~result.hasUpdate
                /\ "error" \in result.fields
                /\ result.error # ""

C5_Witness ==
    /\ chkPc = "done"
    /\ chkFailure = "evaluate"
    /\ fetched.kind = "array"
    /\ result.returned /\ result.error # ""

\* C6: for a feed that is empty or holds only prerelease entries the result
\* is hasUpdate = false with a non-empty error and no downloadUrl, whatever
\* the current version, platform and architecture are.
C6_NoStableRelease ==
    (chkPc = "done" /\ fetched.kind = "array"
       /\ \A k \in 1..Len(fetched.items) : fetched.items[k].prerelease)
    => /\ result.returned
       /\ ~result.hasUpdate
       /\ "error" \in result.fields /\ result.error # ""
       /\ "downloadUrl" \notin result.fields

C6_Witness ==
    /\ chkPc = "done" /\ fetched.kind = "array"
    /\ Len(fetched.items) = 2
    /\ \A k \in 1..Len(fetched.items) : fetched.items[k].prerelease
    /\ \E k \in 1..Len(fetched.items) :
          /\ compareVersions(StripV(fetched.items[k].tag_name), current) > 0
          /\ \E j \in 1..Len(fetched.items[k].assets) :
                AssetMatches(fetched.items[k].assets[j], platform, arch)
    /\ ~result.hasUpdate

\* the first entry of the feed that is no prerelease, when there is one
StableIndexes == {k \in 1..Len(fetched.items) : ~fetched.items[k].prerelease}
Selected ==
    fetched.items[CHOOSE k \in StableIndexes : \A j \in StableIndexes : k <= j]
Matching ==
    {k \in 1..Len(Selected.assets) : AssetMatches(Selected.assets[k], platform, arch)}

\* C7: hasUpdate = true exactly when the selected stable release's tag, its
\* leading v stripped, compares greater than the current version and one of
\* its assets matches; the result then carries that version, the URL of the
\* first matching asset and the release notes. A latest version equal to or
\* older than the current one gives hasUpdate = false without an error.
C7_HasUpdateExactly ==
    chkPc = "done" =>
       LET usable == /\ fetched.kind = "array"
                     /\ StableIndexes # {}
                     /\ Selected.hasTag
       IN /\ result.hasUpdate => usable
          /\ usable =>
               LET latest == StripV(Selected.tag_name)
                   c == compareVersions(latest, current)
               IN /\ result.hasUpdate <=> (c > 0 /\ Matching # {})
                  /\ result.currentVersion = current
                  /\ result.hasUpdate =>
                        /\ result.latestVersion = latest
                        /\ \E k \in Matching :
                              /\ \A j \in Matching : k <= j
                              /\ result.downloadUrl =
                                    Selected.assets[k].browser_download_url
                        /\ result.releaseNotes = Selected.body
                        /\ "error" \notin result.fields
                  /\ c <= 0 => (~result.hasUpdate
                                /\ "error" \notin result.fields)

\* current 1.7.0, newest stable v1.8.0 with a linux/amd64 asset
C7_Witness ==
    /\ chkPc = "done"
    /\ platform = "linux" /\ arch = "x64"
    /\ current = <<"1", ".", "7", ".", "0">>
    /\ result.hasUpdate
    /\ result.latestVersion = <<"1", ".", "8", ".", "0">>
    /\ result.downloadUrl = "url-linux-amd64"

----------------------------------------------------------------------------
(* Properties of testAllServers, checked under SpecSpeed *)

ServerIds == {servers[k] : k \in 1..Len(servers)}

\* C10: the Map testAllServers returns has exactly the ids of the input
\* servers as keys, one entry each, holding a latency or null; for every
\* list length, the empty list and lengths that are no multiple of the batch
\* size included.
C10_OneEntryPerServer ==
    spdPc = "done" =>
        /\ {e[1] : e \in returned} = ServerIds
        /\ \A id \in ServerIds : Cardinality({e \in returned : e[1] = id}) = 1
        /\ \A e \in returned : e[2] = Null \/ e[2] \in Latencies

C10_Witness ==
    /\ spdPc = "done"
    /\ Len(servers) = MAX_CONCURRENT + 1
    /\ Cardinality(ServerIds) = MAX_CONCURRENT + 1
    /\ <<MAX_CONCURRENT, Null>> \in returned
    /\ <<MAX_CONCURRENT + 1, 12>> \in returned

----------------------------------------------------------------------------
(* Properties of testServer and its child processes, checked under        *)
(* SpecSpeed                                                               *)

Probes == 1..Len(servers)
Alive == {k \in Probes : probe[k].proc = "alive"}
Concluded(k) == probe[k].st \in {"done", "returned"}

\* C11: at no time during testAllServers are more than MAX_CONCURRENT (5)
\* ephemeral core processes alive, counting a process from its spawn until
\* it has exited or been killed, also when its probe already reported a
\* failure.
C11_AtMostFiveAlive == Cardinality(Alive) <= MAX_CONCURRENT

\* C12: a failure at any stage of one server's probe (start, port polling,
\* tunnel, HTTP) makes that probe return latency null with a non-empty error
\* and touches nothing else: no other probe's state, not the Map, not the
\* progress of testAllServers, which never rejects; every result is either
\* a latency without error or null with an error, and the Map that is
\* returned holds for each id the latency of the last server with that id.
C12_ResultShape ==
    /\ spdPc \in {"call", "batch", "done"}
    /\ \A k \in Probes : probe[k].st = "done" =>
          \/ probe[k].latency \in Latencies /\ probe[k].error = ""
          \/ probe[k].latency = Null /\ probe[k].error # ""
    /\ spdPc = "done" =>
          \A k \in Probes :
             (\A j \in Probes : j > k => servers[j] # servers[k])
                => <<servers[k], probe[k].latency>> \in returned
C12_FailureStep ==
    \A k \in Probes :
       (/\ probe'[k].st # probe[k].st
        /\ StartFail(k) \/ PortTimeout(k) \/ ProbeFail(k)) =>
          /\ probe'[k].st = "done"
          /\ probe'[k].latency = Null
          /\ probe'[k].error # ""
          /\ \A j \in Probes \ {k} : probe'[j] = probe[j]
          /\ results' = results /\ spdPc' = spdPc
C12_FailureStaysPerServer == []C12_ResultShape /\ [][C12_FailureStep]_vars

C12_Witness ==
    /\ spdPc = "batch"
    /\ \E k, j, l \in Batch(batchAt) :
          /\ probe[k].st = "done" /\ probe[k].handle
          /\ probe[k].latency = Null /\ probe[k].error # ""
          /\ probe[j].st = "done" /\ probe[j].proc = "none"
          /\ probe[j].latency = Null /\ probe[j].error # ""
          /\ probe[l].st = "done" /\ probe[l].latency \in Latencies

\* C13: whatever the outcome of testServer, no child process it spawned is
\* still running once the probe has concluded.
C13_NoProcessOutlivesProbe ==
    \A k \in Probes : Concluded(k) => probe[k].proc # "alive"

C15_MeasuredFromTunnel ==
    \A k \in Probes :
       /\ probe[k].st = "http" => probe[k].elapsed = 0
       /\ (probe[k].st = "done" /\ probe[k].error = "") =>
             probe[k].latency \in ResponseMs

----------------------------------------------------------------------------
(* Properties of the steps of updateCore, checked under Spec *)

Returns(c) == call[c].pc # "done" /\ call'[c].pc = "done"

\* C16: updateCore never starts the runtime: no step of it turns a stopped
\* runtime into a running one, and a call that stopped the runtime returns
\* or throws with the runtime still stopped.
C16_NeverRestarts ==
    [][/\ running' => running
       /\ \A c \in Calls :
             (Returns(c) /\ call[c].wasRunning) => ~running']_vars

C16_Witness ==
    \E c \in Calls :
       /\ call[c].pc = "done" /\ call[c].outcome = "ok"
       /\ call[c].wasRunning
       /\ proxyManager /\ ~running

\* the steps of updateCore in program order, with the steps a failure or a
\* skipped stop leads to
StepOrder ==
    { <<"idle", "download">>, <<"idle", "done">>,
      <<"download", "extract">>, <<"extract", "stop">>,
      <<"stop", "settle">>, <<"stop", "backup">>, <<"settle", "backup">>,
      <<"backup", "copy">>, <<"copy", "chmod">>, <<"chmod", "cleanup">>,
      <<"cleanup", "done">>, <<"catch", "done">> }
    \cup {<<p, "catch">> : p \in {"download", "extract", "stop", "backup",
                                  "copy", "chmod"}}

\* C17: updateCore goes through download, extract, stop (with the settle
\* delay, only when the runtime runs), backup, copy, chmod and cleanup in
\* this order, and nothing is written to the install path or to <path>.bak
\* while a runtime that was running has not been stopped.
C17_FixedOrder ==
    [][/\ \A c \in Calls :
             call'[c].pc # call[c].pc =>
                <<call[c].pc, call'[c].pc>> \in StepOrder
       /\ (install' # install \/ bak' # bak) => ~running]_vars

\* C18: a failing updateCore attempts the restore of <path>.bak, when that
\* file exists, before it throws, and what it throws is the error the catch
\* block was entered with, also when the restore itself fails.
C18_OriginalErrorAfterRestore ==
    [][\A c \in Calls :
          (call[c].pc = "catch" /\ Returns(c)) =>
             /\ call'[c].outcome = "error"
             /\ bak # Absent => call'[c].restore \in {"ok", "failed"}
             /\ call'[c].raised = call[c].failedIn
             /\ call'[c].raised \notin {"none", "restore"}]_vars

C18_Witness ==
    \E c \in Calls :
       /\ call[c].pc = "done" /\ call[c].outcome = "error"
       /\ call[c].failedIn = "copy" /\ call[c].raised = "copy"
       /\ call[c].restore = "failed"
       /\ bak # Absent

\* C19: when updateCore returns true, the install path holds the executable
\* extracted from the archive of the URL it was given, <path>.bak holds the
\* binary that was installed when the call began, if there was one, and off
\* Windows the installed file is executable.
C19_SuccessInstalls ==
    [][\A c \in Calls :
          (call[c].pc = "cleanup" /\ Returns(c)) =>
             /\ call'[c].outcome = "ok"
             /\ install' = NewBin(call[c].url)
             /\ call[c].startInstall # Absent => bak' = call[c].startInstall
             /\ platform # "win32" => installMode' = "x"]_vars

C19_Witness ==
    \E c \in Calls :
       /\ call[c].pc = "done" /\ call[c].outcome = "ok"
       /\ call[c].startInstall = "B0" /\ bak = "B0"
       /\ install \in {NewBin(u) : u \in Urls}
       /\ platform # "win32" /\ installMode = "x"

\* C20: copyFileWithRetry makes at most 3 attempts; it returns only in the
\* step in which a copy succeeded, tries again after a failure that is not
\* the third, and throws the error of the third failed attempt.
C20_RetryContract ==
    [][\A c \in Calls :
          (call[c].pc = "copy" /\ call'[c] # call[c]
             /\ call'[c].failedIn # "mkdir") =>
             /\ call[c].i < Retries
             /\ call'[c].pc = "chmod" => install' = call[c].core
             /\ call'[c].pc = "copy" =>
                   call'[c].i = call[c].i + 1 /\ call'[c].i < Retries
             /\ call'[c].pc = "catch" =>
                   call[c].i = Retries - 1 /\ call'[c].failedIn = "copy"]_vars

C20_Witness ==
    \E c \in Calls :
       /\ call[c].pc = "catch" /\ call[c].failedIn = "copy"
       /\ call[c].i = Retries - 1

----------------------------------------------------------------------------
(* Properties of copyFileWithRetry's forced termination, the cleanup and   *)
(* the early failures of updateCore, checked under Spec                    *)

\* C21: taskkill is attempted only on Windows and only in a pass of the
\* copy loop whose copy failed and which is not the last pass; it is never
\* attempted on another platform or together with the final failure, and
\* whether it succeeded or threw, the loop goes on to its next pass.
C21_ForcedKillOnlyOnWindowsRetry ==
    [][\A c \in Calls :
          call'[c] # call[c] =>
             /\ call'[c].forced # "none" =>
                   /\ platform = "win32"
                   /\ call[c].pc = "copy" /\ ~LastAttempt(call[c].i)
                   /\ call'[c].pc = "copy"
                   /\ call'[c].i = call[c].i + 1 /\ call'[c].i < Retries
             /\ call'[c].pc # "copy" => call'[c].forced = "none"]_vars

C21_Witness ==
    \E c \in Calls :
       /\ platform = "win32"
       /\ call[c].pc = "copy" /\ call[c].i = Retries - 1
       /\ call[c].forced = "failed"

TempsOf(c) == {t \in temps : t[2] = c}

\* C25: when a deletion of the cleanup fails, updateCore still returns
\* success: nothing is rolled back and the new binary stays installed.
C25_CleanupFailureSwallowed ==
    [][\A c \in Calls :
          (/\ call[c].pc = "cleanup" /\ Returns(c)
           /\ (<<"download", c>> \in temps' \/ <<"core", c>> \in temps')) =>
             /\ call'[c].outcome = "ok"
             /\ call'[c].restore = "none"
             /\ install' = NewBin(call[c].url)
             /\ installMode' = installMode /\ bak' = bak]_vars

C25_Witness ==
    \E c \in Calls :
       /\ call[c].pc = "done" /\ call[c].outcome = "ok"
       /\ <<"core", c>> \in temps /\ <<"download", c>> \notin temps
       /\ install \in {NewBin(u) : u \in Urls}

\* C26: after a successful updateCore whose deletions succeeded (the
\* download file and the extracted executable are gone), nothing that the
\* call created in the temp directory is left.
C26_NoTempsLeft ==
    \A c \in Calls :
       (/\ call[c].pc = "done" /\ call[c].outcome = "ok"
        /\ <<"download", c>> \notin temps /\ <<"core", c>> \notin temps) =>
          TempsOf(c) = {}

\* C28: a failing download or extraction (a missing executable included)
\* takes updateCore to its catch block without proxyManager.stop() having
\* been called: the steps up to the error leave the runtime as it was, only
\* a call holding an extracted executable goes on to the stop, and the
\* error is raised with the runtime as it was when the call began.
C28_EarlyFailureKeepsRuntime ==
    [][\A c \in Calls :
          /\ (call[c].pc \in {"download", "extract"}
                 /\ call'[c] # call[c]) =>
                /\ running' = running
                /\ ~call'[c].wasRunning
                /\ call'[c].pc = "stop" => call'[c].core # Absent
          /\ (call[c].failedIn \in {"download", "extract"}
                 /\ Returns(c)) =>
                /\ call'[c].outcome = "error"
                /\ ~call'[c].wasRunning
                /\ running' = call[c].startRunning]_vars

C28_Witness ==
    \E c \in Calls :
       /\ call[c].pc = "done" /\ call[c].outcome = "error"
       /\ call[c].failedIn = "extract"
       /\ call[c].startRunning /\ running
       /\ <<"dir", c>> \in temps

----------------------------------------------------------------------------
(* Properties of the release and asset selection of checkUpdate, checked   *)
(* under SpecCheck                                                         *)

TagVersion(k) == StripV(fetched.items[k].tag_name)
\* the stable entries no other stable entry exceeds
GreatestStable ==
    {k \in StableIndexes :
        \A j \in StableIndexes :
           compareVersions(TagVersion(k), TagVersion(j)) >= 0}

\* C22: the release checkUpdate evaluates is the stable entry of the feed
\* with the greatest version, whatever the order of the feed: an update that
\* is reported carries that version, and it is reported whenever that
\* version is newer than the current one and has a matching asset.
C22_MostRecentStable ==
    (/\ chkPc = "done" /\ fetched.kind = "array"
     /\ StableIndexes # {}
     /\ \A k \in StableIndexes : fetched.items[k].hasTag) =>
        /\ result.hasUpdate =>
              \E k \in GreatestStable :
                 compareVersions(result.latestVersion, TagVersion(k)) = 0
        /\ (\A k \in GreatestStable :
               /\ compareVersions(TagVersion(k), current) > 0
               /\ \E j \in 1..Len(fetched.items[k].assets) :
                     AssetMatches(fetched.items[k].assets[j], platform, arch))
              => result.hasUpdate

\* the three conditions on an asset name, for the platforms and
\* architectures that have a keyword
Qualifies(a) ==
    LET name == ToLowerCase(a.name)
        last == a.name[Len(a.name)]
    IN /\ \/ platform = "win32" /\ Includes(name, "windows")
          \/ platform = "darwin" /\ Includes(name, "darwin")
          \/ platform = "linux" /\ Includes(name, "linux")
       /\ \/ arch = "x64" /\ Includes(name, "amd64")
          \/ arch = "arm64" /\ Includes(name, "arm64")
       /\ \/ last = ".zip"
          \/ platform \in {"darwin", "linux"} /\ last = ".tar.gz"
Qualifying == {k \in 1..Len(Selected.assets) : Qualifies(Selected.assets[k])}

\* C23: when the selected release is newer than the current version, the
\* asset whose URL is returned is the first one in feed order whose name
\* has the platform keyword and the architecture keyword and ends with the
\* platform's archive extension or .zip; when there is none, the result is
\* hasUpdate = false with an error that names platform and architecture.
C23_FirstQualifyingAsset ==
    (/\ chkPc = "done" /\ fetched.kind = "array"
     /\ platform \in Platforms /\ arch \in {"x64", "arm64"}
     /\ StableIndexes # {} /\ Selected.hasTag
     /\ compareVersions(StripV(Selected.tag_name), current) > 0) =>
        IF Qualifying = {}
        THEN /\ ~result.hasUpdate
             /\ result.error = "no build for this platform (Platform: "
                                  \o platform \o ", Arch: " \o arch \o ")"
        ELSE /\ result.hasUpdate
             /\ \E k \in Qualifying :
                   /\ \A j \in Qualifying : k <= j
                   /\ result.downloadUrl =
                         Selected.assets[k].browser_download_url

\* linux/x64: the .deb and the arm64 asset listed first are passed over
C23_Witness ==
    /\ chkPc = "done"
    /\ platform = "linux" /\ arch = "x64"
    /\ StableIndexes # {} /\ Selected.hasTag
    /\ Selected.assets = FullAssets
    /\ result.hasUpdate
    /\ result.downloadUrl = "url-linux-amd64"
    /\ Qualifying = {3}

----------------------------------------------------------------------------
(* Properties of compareVersions on dotted numbers, checked under SpecCmp *)

\* the i-th component of a dotted number as an integer, 0 past the end
Component(v, i) ==
    LET sp == SplitDot(v) IN IF i <= Len(sp) THEN Decimal(sp[i]) ELSE 0
\* the leftmost position at which two dotted numbers differ
FirstUnequal(a, b) ==
    {i \in 1..Max(Len(SplitDot(a)), Len(SplitDot(b))) :
        /\ Component(a, i) # Component(b, i)
        /\ \A j \in 1..(i - 1) : Component(a, j) = Component(b, j)}

\* C24: compareVersions compares the components as integers from the left,
\* a missing trailing component counting as zero, and the first unequal
\* pair decides; compare("1.8", "1.8.0") = 0 and
\* compare("1.9.0", "1.10.0") < 0.
C24_NumericLeftToRight ==
    /\ cmpDone =>
          IF FirstUnequal(va, vb) = {} THEN cmp.ab = 0
          ELSE \A i \in FirstUnequal(va, vb) :
                  cmp.ab = IF Component(va, i) > Component(vb, i) THEN 1 ELSE -1
    /\ compareVersions(<<"1", ".", "8">>, <<"1", ".", "8", ".", "0">>) = 0
    /\ compareVersions(<<"1", ".", "9", ".", "0">>,
                       <<"1", ".", "1", "0", ".", "0">>) < 0

\* 9 against 9.0 (equal), and 9.0 against 10.0 (less, though "9" sorts after
\* "10" as a string)
C24_Witness ==
    /\ cmpDone
    /\ va = <<"9">> /\ vb = <<"9", ".", "0">>
    /\ vc = <<"1", "0", ".", "0">>
    /\ cmp.ab = 0 /\ cmp.bc = -1

----------------------------------------------------------------------------
(* The download and the unpacking, under SpecDownload *)

\* the command made for an archive type
MethodFor(archive) == IF archive = "zip" THEN {"Expand-Archive", "unzip"} ELSE {"tar"}

\* C27: the temp file downloadFile returns has the extension of the asset
\* URL updateCore was given, redirects to URLs with another or no extension
\* included, and the command extractCore runs on it is the one for the
\* asset's archive type.
C27_ExtensionPreserved ==
    dlPath # <<>> =>
        /\ dlPath[Len(dlPath)] = Extname(dlAsset)
        /\ dlMethod # "none" => dlMethod \in MethodFor(ArchiveOf(dlAsset))

----------------------------------------------------------------------------
(* The order of batches and of the stages of a probe, under SpecSpeed *)

\* the number of the batch a position of the input falls in
BatchOf(k) == (k - 1) \div MAX_CONCURRENT

\* C29: the input is cut in order into consecutive batches of at most 5
\* servers, and no probe of a batch starts before every probe of the batches
\* before it has returned its result.
C29_BatchesSequential ==
    /\ [](/\ batchAt % MAX_CONCURRENT = 0
          /\ spdPc = "batch" =>
                /\ Batch(batchAt) # {}
                /\ Cardinality(Batch(batchAt)) <= MAX_CONCURRENT
                /\ \A k \in Probes :
                      /\ probe[k].st = "idle" <=> k > SliceEnd(batchAt)
                      /\ probe[k].st = "returned" <=> k <= batchAt)
    /\ [][\A k \in Probes :
            (probe[k].st = "idle" /\ probe'[k].st # "idle") =>
                \A j \in Probes :
                   BatchOf(j) < BatchOf(k) =>
                      probe[j].st \in {"done", "returned"}]_vars

\* the sixth server is being probed, the first five have returned
C29_Witness ==
    /\ spdPc = "batch" /\ batchAt = MAX_CONCURRENT
    /\ Len(servers) > MAX_CONCURRENT
    /\ probe[MAX_CONCURRENT + 1].st \in {"starting", "port"}
    /\ \A j \in 1..MAX_CONCURRENT : probe[j].st = "returned"
    /\ Cardinality(results) > 0

\* the stages a testServer call is in, in order: "starting" is the
\* configuration, the spawn and the wait for readiness, "port" the polling,
\* "tunnel" and "http" the probe; "done" is reached through the finally block
NextStage ==
    { <<"idle", "starting">>, <<"starting", "port">>, <<"port", "tunnel">>,
      <<"tunnel", "http">>, <<"http", "done">>, <<"done", "returned">> }
\* the stage of p succeeded and q is in the next one
Advanced(p, q) ==
    /\ <<p.st, q.st>> \in NextStage
    /\ q.st = "port" => p.proc = "alive" /\ q.handle
    /\ q.st = "done" => q.latency # Null /\ q.error = ""
\* the stage of p failed and q is past the finally block
Skipped(p, q) ==
    /\ p.st \in {"starting", "port", "tunnel", "http"}
    /\ q.st = "done"
    /\ q.latency = Null /\ q.error # ""

\* C30: within one probe the stages follow one another in the order
\* configuration and spawn, readiness wait, port polling, SOCKS/HTTP probe,
\* termination; a stage starts only when the one before it has succeeded, a
\* failed stage goes directly to the termination, and the termination kills
\* the process testServer holds.
C30_StagesSequential ==
    [][\A k \in Probes :
          probe'[k].st # probe[k].st =>
             /\ Advanced(probe[k], probe'[k]) \/ Skipped(probe[k], probe'[k])
             /\ (probe'[k].st = "done" /\ probe[k].handle) =>
                   probe'[k].proc = "dead"]_vars

\* one probe went through every stage, one failed while polling the port
C30_Witness ==
    \E k, j \in Probes :
       /\ probe[k].st = "done" /\ probe[k].latency \in Latencies
       /\ probe[k].proc = "dead"
       /\ probe[j].st = "done" /\ probe[j].latency = Null
       /\ probe[j].handle /\ probe[j].proc = "dead"
       /\ probe[j].elapsed = 0

----------------------------------------------------------------------------
(* Termination of testAllServers, under FairSpeed *)

\* C31: every testServer call settles, each stage it waits in being bounded
\* by a timeout, so testAllServers returns for every server list, also when
\* no process signals readiness, no port opens and no endpoint answers.
C31_EventuallyReturns ==
    <>(spdPc = "done" /\ \A k \in Probes : probe[k].st = "returned")

\* two batches were run and no probe of them got a response
C31_Witness ==
    /\ spdPc = "done"
    /\ Len(servers) > MAX_CONCURRENT
    /\ \A k \in Probes : probe[k].st = "returned" /\ probe[k].latency = Null

----------------------------------------------------------------------------
(* The promise of httpGetViaSocks, under SpecHttp *)

\* a chunk whose text begins with "HTTP/"
BeginsWithHttp(c) == Len(c) > 0 /\ Head(c) = "HTTP/"

\* C32: the HTTP probe settles exactly once; it succeeds only if a chunk
\* beginning with "HTTP/" arrived before the timeout, it fails on the
\* timeout, on a socket error and when the connection closes without such a
\* chunk, and chunks that do not begin with "HTTP/" never make it succeed.
C32_SettlesOnce ==
    /\ [](/\ hSettled = "resolved" =>
                /\ \E i \in 1..Len(hChunks) : BeginsWithHttp(hChunks[i])
                /\ hTimer # "fired"
          /\ hSocket = "closed" => hSettled # "pending"
          /\ hSettled = "pending" <=> hCalls = 0)
    /\ [][/\ hSettled # "pending" => hSettled' = hSettled
          /\ (hSettled = "pending" /\ hTimer = "armed" /\ hTimer' = "fired")
                => hSettled' = "timeout"
          /\ (hSettled = "pending" /\ hSocket = "open" /\ hSocket' = "closed")
                => hSettled' = "closed"
          /\ (hSettled = "pending" /\ hSettled' = "error")
                => hSocket = "open" /\ hSocket' = "destroyed"
          /\ hSettled' \in {"pending", "resolved", "timeout", "error",
                             "closed"}]_vars

\* a chunk that only contains "HTTP/" was passed over, the next one made
\* the probe succeed, and the 'close' that followed rejected nothing
C32_Witness ==
    /\ hSettled = "resolved" /\ hSocket = "closed" /\ hCalls = 1
    /\ Len(hChunks) = 2
    /\ ~BeginsWithHttp(hChunks[1]) /\ BeginsWithHttp(hChunks[2])

----------------------------------------------------------------------------
(* The synthesized configuration, under SpecConfig *)

\* the profile given and the outbound made of it
Profile == cfgServer[1]
Outbound == cfgOut[1].outbounds[1]
\* the four protocol names
ProtocolNames == {"vless", "trojan", "hysteria2", "shadowsocks"}
\* a setting that is configured: present and not empty
Configured(x) == x # <<>> /\ x[1] # ""

\* C33: the configuration has exactly one inbound, of type socks on
\* 127.0.0.1 at the allocated port, and exactly one outbound whose type is
\* the server's protocol, addressed to the server's address and port, with
\* the credentials of the protocol (vless: uuid and flow; trojan: password;
\* hysteria2: password, and the obfuscation when configured; shadowsocks:
\* method and password); the profile is not modified.
C33_OneInboundOneOutbound ==
    /\ [](cfgPc = "done" =>
            /\ Len(cfgOut[1].inbounds) = 1
            /\ cfgOut[1].inbounds[1].type = "socks"
            /\ cfgOut[1].inbounds[1].listen = "127.0.0.1"
            /\ cfgOut[1].inbounds[1].listen_port = cfgPort
            /\ Len(cfgOut[1].outbounds) = 1
            /\ Outbound.type \in ProtocolNames
            /\ Profile.protocol \in ProtocolNames =>
                  Outbound.type = Profile.protocol
            /\ Outbound.server = Profile.address
            /\ Outbound.server_port = Profile.port
            /\ Outbound.type = "vless" =>
                  /\ Outbound.uuid = Profile.uuid
                  /\ Outbound.flow =
                        (IF Configured(Profile.flow) THEN Profile.flow[1]
                         ELSE "")
            /\ Outbound.type = "trojan" =>
                  Outbound.password = Profile.password
            /\ Outbound.type = "hysteria2" =>
                  /\ Outbound.password = Profile.password
                  /\ \A o \in {Profile.hysteria2Settings} :
                        (o # <<>> /\ o[1].obfs # <<>>) =>
                           /\ "obfs" \in DOMAIN Outbound
                           /\ Outbound.obfs.type = o[1].obfs[1].type
                           /\ Outbound.obfs.password = o[1].obfs[1].password
            /\ Outbound.type = "shadowsocks" =>
                  /\ {"method", "password"} \subseteq DOMAIN Outbound
                  /\ \A o \in {Profile.shadowsocksSettings} :
                        /\ (o # <<>> /\ Configured(o[1].method)) =>
                               Outbound.method = o[1].method[1]
                        /\ (o # <<>> /\ Configured(o[1].password)) =>
                               Outbound.password = o[1].password[1])
    /\ [][cfgServer' = cfgServer]_vars

\* a shadowsocks profile with its method and password, on the last port of
\* the range
C33_Witness ==
    /\ cfgPc = "done" /\ cfgPort = 64999
    /\ Profile.protocol = "shadowsocks"
    /\ Profile.shadowsocksSettings # <<>>
    /\ Outbound.method = "chacha20-ietf-poly1305"
    /\ Outbound.password = "ss-pw"

\* C34: for each of the four protocols, a profile with a websocket
\* transport gives an outbound whose transport carries the configured path
\* and, when there is one, the Host header.
C34_WebsocketForEveryProtocol ==
    (/\ cfgPc = "done"
     /\ Profile.network = <<"ws">>
     /\ Profile.wsSettings # <<>>) =>
        /\ "transport" \in DOMAIN Outbound
        /\ Outbound.transport.type = "ws"
        /\ Configured(Profile.wsSettings[1].path) =>
               Outbound.transport.path = Profile.wsSettings[1].path[1]
        /\ \A h \in {Profile.wsSettings[1].headers} :
               (h # <<>> /\ Configured(h[1].Host)) =>
                  /\ "headers" \in DOMAIN Outbound.transport
                  /\ Outbound.transport.headers.Host = h[1].Host[1]

\* C35: the outbound has a TLS section exactly when the security is tls or
\* reality; the section carries the configured server name, else the
\* server address, the insecure flag, the ALPN list exactly when one is
\* configured, and a reality block with public key and short id exactly
\* when the security is reality and reality settings are present.
C35_TlsSection ==
    cfgPc = "done" =>
       /\ "tls" \in DOMAIN Outbound <=> Profile.security \in {"tls", "reality"}
       /\ "tls" \in DOMAIN Outbound =>
             \A t \in {Profile.tlsSettings} :
                /\ Outbound.tls.server_name =
                      (IF t # <<>> /\ Configured(t[1].serverName)
                       THEN t[1].serverName[1] ELSE Profile.address)
                /\ Outbound.tls.insecure =
                      (t # <<>> /\ t[1].allowInsecure = <<TRUE>>)
                /\ "alpn" \in DOMAIN Outbound.tls <=>
                      (t # <<>> /\ t[1].alpn # <<>>)
                /\ "alpn" \in DOMAIN Outbound.tls =>
                      Outbound.tls.alpn = t[1].alpn[1]
                /\ "reality" \in DOMAIN Outbound.tls <=>
                      (Profile.security = "reality"
                       /\ Profile.realitySettings # <<>>)
                /\ "reality" \in DOMAIN Outbound.tls =>
                      /\ Outbound.tls.reality.public_key =
                            Profile.realitySettings[1].publicKey
                      /\ Outbound.tls.reality.short_id =
                            (IF Configured(Profile.realitySettings[1].shortId)
                             THEN Profile.realitySettings[1].shortId[1]
                             ELSE "")

\* a reality profile with server name, ALPN list and short id
C35_Witness ==
    /\ cfgPc = "done"
    /\ Profile.security = "reality"
    /\ Profile.tlsSettings # <<>> /\ Profile.realitySettings # <<>>
    /\ Outbound.tls.server_name = "sni.example"
    /\ Outbound.tls.insecure
    /\ Outbound.tls.alpn = <<"h2">>
    /\ Outbound.tls.reality.short_id = "ab"

----------------------------------------------------------------------------
(* The SERVER_SPEED_TEST handler, under SpecIpc *)

\* the servers the handler is probing
BeingProbed == {k \in 1..Len(ipcServers) : ipcSocket[k] = "connecting"}

\* C36: a speed test started through SERVER_SPEED_TEST is run in batches,
\* so at most 5 of the configured servers are being probed at one time.
C36_HandlerProbesAtMostFive == Cardinality(BeingProbed) <= MAX_CONCURRENT

----------------------------------------------------------------------------
(* The asset and the unknown version, under SpecCheck *)

\* the names release assets carry for an operating system and for an
\* architecture
OsName(p) ==
    CASE p = "win32" -> "windows" [] p = "darwin" -> "darwin"
      [] p = "linux" -> "linux" [] p = "freebsd" -> "freebsd"
ArchName(ar) ==
    CASE ar = "x64" -> "amd64" [] ar = "arm64" -> "arm64" [] ar = "ia32" -> "386"
\* the asset is a build for the platform and architecture of the process
BuiltForHost(a) ==
    /\ \E k \in 1..Len(a.name) : LowerPart(a.name[k]) = OsName(platform)
    /\ \E k \in 1..Len(a.name) : LowerPart(a.name[k]) = ArchName(arch)

\* C37: whenever checkUpdate returns hasUpdate = true, the asset behind
\* downloadUrl is a build for the platform and architecture of the process,
\* whatever they are, those without a keyword included.
C37_AssetBuiltForHost ==
    (chkPc = "done" /\ result.hasUpdate) =>
        /\ \E k \in 1..Len(Selected.assets) :
              Selected.assets[k].browser_download_url = result.downloadUrl
        /\ \A k \in 1..Len(Selected.assets) :
              Selected.assets[k].browser_download_url = result.downloadUrl
                 => BuiltForHost(Selected.assets[k])


\* C38: without a proxy manager the current version is the placeholder and
\* checkUpdate does not fail on it: the placeholder compares as version 0,
\* so a selected stable release with a positive version and a matching
\* asset is reported with hasUpdate = true.
C38_UnknownComparesAsZero ==
    (/\ chkPc = "done" /\ ~proxyManager
     /\ fetched.kind = "array" /\ StableIndexes # {} /\ Selected.hasTag) =>
        /\ result.returned /\ ~result.threw /\ chkFailure = "none"
        /\ result.currentVersion = current
        /\ compareVersions(current, <<"0">>) = 0
        /\ \A v \in VersionStrings :
              compareVersions(v, current) = compareVersions(v, <<"0">>)
        /\ (/\ compareVersions(StripV(Selected.tag_name), <<"0">>) > 0
            /\ \E k \in 1..Len(Selected.assets) :
                  AssetMatches(Selected.assets[k], platform, arch))
              => result.hasUpdate

\* the oldest release of the feed is an update over the placeholder
C38_Witness ==
    /\ chkPc = "done" /\ ~proxyManager
    /\ current = <<"?", "?">>
    /\ result.hasUpdate
    /\ result.latestVersion = <<"1", ".", "7", ".", "0">>

----------------------------------------------------------------------------
(* The highlight of the topology, under SpecTopology *)

\* positions in topoLinks, and the id a position is drawn under
LinkPositions == 1..Len(topoLinks)
IdAt(i) == "link-" \o ToString(i - 1)
\* the flow through the link at position i: a link from a middle node to an
\* outbound with the source, the link that feeds the middle node, the
\* middle node and the outbound; a link from the source to a middle node
\* with the source, the middle node, the links that leave the middle node
\* and the outbounds they go to
FlowThrough(i) ==
    LET l == topoLinks[i] IN
    IF l.source = "source"
    THEN {IdAt(i), l.source, l.target}
         \cup UNION {{IdAt(j), topoLinks[j].target} :
                        j \in {k \in LinkPositions :
                                 topoLinks[k].source = l.target}}
    ELSE {IdAt(i), l.source, l.target, "source"}
         \cup {IdAt(j) : j \in {k \in LinkPositions :
                                   /\ topoLinks[k].source = "source"
                                   /\ topoLinks[k].target = l.source}}

\* C39: hovering a link highlights the flow through that link and nothing
\* else: for a link from a middle node to an outbound no other outbound
\* link of that middle node, for a link from the source to a middle node
\* no link of another middle node.
C39_LinkHoverHighlightsItsFlow ==
    \A i \in LinkPositions :
       (hovered.type = "link" /\ hovered.id = IdAt(i)) =>
          highlighted = FlowThrough(i)

====
